---- MODULE Spec2Model ----
(***************************************************************************)
(* Retry-with-backoff wrappers and the per-unit pipeline drivers of the    *)
(* print-on-demand automation scripts.                                     *)
(*                                                                         *)
(* Part 1 (specification Spec): the retry loops that wrap one network      *)
(* operation each (createSingleProduct, createProductFromTemplate,         *)
(* generateProductText, uploadMockupToDropbox, updateProductWithAssets,    *)
(* and the two uploadFileToPrintful variants).                             *)
(* Part 2 (specification PipelineSpec): the drivers that take design units *)
(* through content generation, upload and product creation.                *)
(***************************************************************************)
EXTENDS Integers, Sequences, FiniteSets, TLC

(***************************************************************************)
(* Bounds of the model and program constants                               *)
(***************************************************************************)
\* largest maxRetries argument explored
MaxRetriesBound == 3

\* default of the retryDelay parameter, in ms
DefaultRetryDelay == 2000

\* default of the maxRetries parameter
DefaultMaxRetries == 3

\* largest number of PNG files found in the export directory
MaxUnits == 3

\* largest number of shared links the host issues for one file in a run
MaxLinkGen == 3

\* largest number of runs that write to the same result log
MaxRuns == 3

\* waitForMockupGeneration(taskKey, maxAttempts = 10, initialDelay = 10000)
DefaultMaxAttempts == 10
DefaultInitialDelay == 10000

\* Math.min(delay * 1.5, 30000)
MaxDelay == 30000

\* largest number of colors a product is available in
MaxColors == 3

\* largest number of rows of words.csv
MaxRows == 4

\* default of the price option, in cents (39.99)
DEFAULT_PRICE == 3999

\* retail price of the products that uploadToPrintful.js creates, in cents
BatchRetailPrice == 2999

(***************************************************************************)
(* Part 1: the retry loops                                                 *)
(***************************************************************************)
VARIABLES
    fn,           \* which retry wrapper is executing
    rstate,       \* "idle" | "running" | "returned" | "thrown"
    maxRetries,   \* parameter maxRetries of the call
    initialDelay, \* value of parameter retryDelay at the time of the call
    retryDelay,   \* the local retryDelay, a rational [n, d] (ms)
    attempt,      \* loop counter
    lastError,    \* local lastError
    thrown,       \* the error the call ended with, if any
    inputValid,   \* whether the call's arguments / environment pass validation
    file,         \* state of the local file an upload reads
    tries,        \* outcome of every executed try-body, in order
    requests,     \* number of network requests issued by the call
    sleeps        \* the delays slept between attempts, in order

rvars == <<fn, rstate, maxRetries, initialDelay, retryDelay, attempt,
           lastError, thrown, inputValid, file, tries, requests, sleeps>>

\* state of the pipeline drivers (Part 2)
VARIABLES
    script,       \* the program that runs, "none" before it starts
    DRY_RUN,      \* dry-run mode of the run (isDryRun)
    TEMPLATE_ONLY,\* true unless --attempt-sync was given
    SYNC_ONLY,    \* --sync-only
    files,        \* number of design files enumerated (files.length)
    cur,          \* index of the file processFile is working on
    pc,           \* position in the program
    unit,         \* per file: outcome of each stage, fileUrl, returned value
    trace,        \* per file: the stage calls made for it, in order
    results,      \* main's results array: <<file index, kind of result>>
    summary,      \* the counts the summary prints, once printed
    exitCode,     \* "none" while running, then the process exit status
    env,          \* what is missing from the environment (.env) of the run
    VARIANT_IDS   \* the variant map: "empty", "fetched" or "default"

pvars == <<script, DRY_RUN, TEMPLATE_ONLY, SYNC_ONLY, files, cur, pc, unit,
           trace, results, summary, exitCode, env, VARIANT_IDS>>

\* Part 3, the Dropbox account the uploaders write to
VARIABLES
    sdk,          \* shape of the values the installed dropbox package resolves to
    hostFiles,    \* names of the files stored in the Dropbox folder
    hostLinks,    \* per name: id of its shared link, 0 when it has none
    last          \* the last upload call: its file, its outcome, its URL

hvars == <<sdk, hostFiles, hostLinks, last>>

\* Part 4, the parsing of a completion
VARIABLES
    parser,       \* which generateListing parsed the last completion
    message,      \* the completion: what each parsing step finds in it
    parsed        \* what the parsing ended with

mvars == <<parser, message, parsed>>

\* Part 5, the creation of a product in a store
VARIABLES
    processEnv,   \* process.env: the four PRINTFUL_ settings, "undefined" if unset
    storeType,    \* the storeType argument of the call
    price,        \* the price argument handed to createSingleProduct
    run,          \* "idle", "running", "batch", "returned" or "thrown"
    tried,        \* number of attempts of the loop made so far
    used,         \* the credentials resolved at each attempt, in order
    sent          \* the requests sent: the API key and the price of each

svars == <<processEnv, storeType, price, run, tried, used, sent>>

\* Part 6, the export of the designs by generate.js
VARIABLES
    rows,         \* number of rows read from words.csv
    tasks,        \* per row: its Illustrator task, "none" before it is started
    gpc,          \* where main is: "idle", "waiting", "done"
    exported      \* the counts of the export summary, once printed

gvars == <<rows, tasks, gpc, exported>>

\* Part 7, the files in which the scripts record what they created
VARIABLES
    clock,        \* Date.now() of the next run, in ms
    logFiles,     \* the record files on disk: the name and the run that wrote it
    written,      \* every writeFileSync of a record so far, in order
    lastRun       \* the last run: script, design, whether it synced and wrote

lvars == <<clock, logFiles, written, lastRun>>

\* Part 8, calls of createSingleProduct that are active at the same time
VARIABLES
    frames        \* the parameters and locals of each activation

fvars == <<frames>>

\* Part 9, createNewProduct's loop over the colors
VARIABLES
    cpc,              \* "idle" | "loop" | "single" | "returned" | "thrown"
    mode,             \* the options allColors, allSizes, allVariants
    colorsToUse,      \* number of colors of the loop (colorsToUse.length)
    currentColor,     \* index of the color the loop is at
    createdProducts,  \* the colors whose product was pushed, in order
    timeline          \* the calls of createSingleProduct and the waits, in order

cvars == <<cpc, mode, colorsToUse, currentColor, createdProducts, timeline>>

\* Part 10, the wait for the mockup generation task
VARIABLES
    wpc,          \* "idle" | "waiting" | "returned" | "thrown"
    attempts,     \* the local attempts
    delay,        \* the local delay, a rational [n, d] (ms)
    waited,       \* the delays waited before the checks, in order
    statuses,     \* what the checks answered, in order
    wresult       \* how the call ended

wvars == <<wpc, attempts, delay, waited, statuses, wresult>>

\* Part 11, runPipeline of generate.js
VARIABLES
    rpc,                \* position: "idle", the stage to run, "summary", "exited"
    SKIP_MOCKUPS,       \* --skip-mockups
    SKIP_UPLOAD,        \* --skip-upload
    dryRun,             \* --dry-run, handed on as uploadOptions.dryRun
    illustratorSuccess, \* the three locals of runPipeline
    mockupSuccess,
    uploadSuccess,
    stages,             \* per stage: how its call ended, "none" if not called
    pipelineSummary,    \* the lines of the final summary, once printed
    exitStatus          \* "none" while the process runs, then its exit status

qvars == <<rpc, SKIP_MOCKUPS, SKIP_UPLOAD, dryRun, illustratorSuccess,
           mockupSuccess, uploadSuccess, stages, pipelineSummary, exitStatus>>

vars == <<rvars, pvars, hvars, mvars, svars, gvars, lvars, fvars, cvars, wvars, qvars>>

\* the retry wrappers
UnconditionalFns == {"createSingleProduct", "createProductFromTemplate",
                     "generateProductText", "uploadMockupToDropbox",
                     "updateProductWithAssets", "uploadFileToPrintful"}
RetryFns == UnconditionalFns \cup {"uploadFileToPrintfulDirect"}

\* network operations written without a retry loop: generateListing
\* (part_011), createProductWithEtsySync (part_007) and uploadToCloudinary
\* (part_015), which part_007's uploadFileToPrintful delegates to
OneShotFns == {"generateListing", "createProductWithEtsySync",
               "uploadToCloudinary"}

\* operations that read a local file before issuing a request
FileFns == {"uploadMockupToDropbox", "uploadFileToPrintful",
            "uploadFileToPrintfulDirect", "uploadToCloudinary"}

\* wrappers that validate arguments or environment inside the try-body
ValidatingFns == {"createSingleProduct"}

\* what the remote side can answer to one request
Responses == {"ok", "http5xx", "http429", "http4xx", "timeout", "malformed"}

FileStates == {"present", "missing", "oversize"}

\* an error value: what failed, in which attempt it was raised, and the class
\* of the thrown object
NoError == [kind |-> "none", at |-> 0, class |-> "none"]

\* the class of the object a failing try-body throws: new Error(...) for the
\* explicit throws, the client library's own error for a request without answer
ErrorClass(kind) ==
    CASE kind = "timeout"      -> "FetchError"
      [] kind = "file_missing" -> "SystemError"
      [] OTHER                 -> "Error"

\* rationals for the delays: retryDelay *= 1.5 is exact in this range
Rat(n) == [n |-> n, d |-> 1]
RatEq(p, q) == p.n * q.d = q.n * p.d
RECURSIVE Pow(_, _)
Pow(b, e) == IF e = 0 THEN 1 ELSE b * Pow(b, e - 1)

\* values of the retryDelay argument explored: the default, and an odd one so
\* that 1.5 x delay is not a whole number of ms
RetryDelays == {DefaultRetryDelay, 1}

\* a doubling backoff, which the retry loops do not use
DoubleDelay(q) == [n |-> q.n * 2, d |-> q.d]

\* retryDelay *= 1.5
IncreaseDelay(q) == [n |-> q.n * 3, d |-> q.d * 2]

\* a loop that stops one iteration early, which the retry loops do not do
LoopConditionStrict(a, m) == a < m

\* the loop condition  attempt <= maxRetries
LoopCondition(a, m) == a <= m

\* a catch block that sleeps after every failure, the last one included,
\* which the retry loops do not do
SleepAfterEveryFailure(f, kind, a, m) == TRUE

\* the catch block's test before sleeping:  attempt < maxRetries ; the direct
\* uploader also requires a 5xx or 429 response and leaves the loop otherwise
RetryCondition(f, kind, a, m) ==
    IF f = "uploadFileToPrintfulDirect"
    THEN kind \in {"http5xx", "http429"} /\ a < m
    ELSE a < m

\* whether the wrapper, after a failure that is not followed by a sleep, leaves
\* the loop at once (break) instead of going on to the next iteration
BreaksLoop(f, kind, a, m) ==
    f = "uploadFileToPrintfulDirect" /\ ~RetryCondition(f, kind, a, m)

\* a response with status ok whose body lacks the expected fields: an error in
\* most wrappers; updateProductWithAssets returns data.result (undefined) and
\* uploadToCloudinary result.secure_url (undefined), uploadMockupToDropbox
\* falls back to a URL built from the file path, and generateListing returns
\* what it parsed or extracted, empty fields included
MalformedOutcome(f) ==
    CASE f = "updateProductWithAssets" -> [ok |-> TRUE, kind |-> "undefined"]
      [] f = "uploadMockupToDropbox"   -> [ok |-> TRUE, kind |-> "fallbackUrl"]
      [] f = "generateListing"         -> [ok |-> TRUE,
                                           kind |-> "incompleteContent"]
      [] f = "uploadToCloudinary"      -> [ok |-> TRUE, kind |-> "undefined"]
      [] OTHER                         -> [ok |-> FALSE, kind |-> "malformed"]

\* one execution of the try-body: what it ends with and whether it got as far
\* as issuing the network request
TryBody(f, valid, fl, resp) ==
    IF f \in ValidatingFns /\ ~valid
    THEN [ok |-> FALSE, kind |-> "invalid_input", requested |-> FALSE]
    ELSE IF f \in FileFns /\ fl = "missing"
    THEN [ok |-> FALSE, kind |-> "file_missing", requested |-> FALSE]
    ELSE IF f = "uploadFileToPrintfulDirect" /\ fl = "oversize"
    THEN [ok |-> FALSE, kind |-> "oversize", requested |-> FALSE]
    ELSE IF resp = "ok"
    THEN [ok |-> TRUE, kind |-> "result", requested |-> TRUE]
    ELSE IF resp = "malformed"
    THEN [ok |-> MalformedOutcome(f).ok, kind |-> MalformedOutcome(f).kind,
          requested |-> TRUE]
    ELSE [ok |-> FALSE, kind |-> resp, requested |-> TRUE]

\* a catch block that keeps the first error, which the retry loops do not do
KeepFirstError(le, err) == IF le.kind = "none" THEN err ELSE le

\* a try-body that goes on to the catch block even after it got its result
NeverReturns(out) == FALSE

\* the try-body ends with  return <result>  when nothing in it threw
ReturnsResult(out) == out.ok

\* the catch block's  lastError = error
RecordError(le, err) == err

\* after the loop:  throw lastError
ThrowAfterLoop(le) == le

RetryInit ==
    /\ fn = "none"
    /\ rstate = "idle"
    /\ maxRetries = DefaultMaxRetries
    /\ initialDelay = DefaultRetryDelay
    /\ retryDelay = Rat(DefaultRetryDelay)
    /\ attempt = 1
    /\ lastError = NoError
    /\ thrown = NoError
    /\ inputValid = TRUE
    /\ file = "present"
    /\ tries = << >>
    /\ requests = 0
    /\ sleeps = << >>

\* a caller invokes wrapper f: parameters bound, locals initialised
Call(f, m, d, valid, fl) ==
    /\ rstate \in {"idle", "returned", "thrown"}
    /\ (f \notin ValidatingFns => valid)
    /\ (f \notin FileFns => fl = "present")
    /\ fn' = f
    /\ rstate' = "running"
    /\ maxRetries' = m
    /\ initialDelay' = d
    /\ retryDelay' = Rat(d)
    /\ attempt' = 1
    /\ lastError' = NoError
    /\ thrown' = NoError
    /\ inputValid' = valid
    /\ file' = fl
    /\ tries' = << >>
    /\ requests' = 0
    /\ sleeps' = << >>
    /\ UNCHANGED <<pvars, hvars, mvars, svars, gvars, lvars, fvars, cvars, wvars, qvars>>

\* a caller invokes one of the operations that have no retry loop: the body
\* runs once and its result or its error goes straight to the caller
Invoke(f, fl, resp) ==
    /\ rstate \in {"idle", "returned", "thrown"}
    /\ f \in OneShotFns
    /\ (f \notin FileFns => fl = "present")
    /\ LET out == TryBody(f, TRUE, fl, resp)
           err == [kind |-> out.kind, at |-> 1, class |-> ErrorClass(out.kind)]
       IN  /\ fn' = f
           /\ maxRetries' = 1
           /\ attempt' = 1
           /\ inputValid' = TRUE
           /\ file' = fl
           /\ tries' = <<out.kind>>
           /\ requests' = IF out.requested THEN 1 ELSE 0
           /\ sleeps' = << >>
           /\ retryDelay' = Rat(initialDelay)
           /\ UNCHANGED initialDelay
           /\ rstate' = IF ReturnsResult(out) THEN "returned" ELSE "thrown"
           /\ lastError' = IF ReturnsResult(out) THEN NoError ELSE err
           /\ thrown' = IF ReturnsResult(out) THEN NoError ELSE err
    /\ UNCHANGED <<pvars, hvars, mvars, svars, gvars, lvars, fvars, cvars, wvars, qvars>>

\* one iteration of  for (attempt = 1; attempt <= maxRetries; attempt++) :
\* the try-body with the remote answer resp, and on failure the catch block
\* (record lastError, sleep and increase the delay when retrying); when the
\* loop is left after a failure the wrapper throws
Attempt(resp) ==
    /\ rstate = "running"
    /\ LoopCondition(attempt, maxRetries)
    /\ LET out == TryBody(fn, inputValid, file, resp)
           err == [kind |-> out.kind, at |-> attempt,
                   class |-> ErrorClass(out.kind)]
       IN  /\ tries' = Append(tries, out.kind)
           /\ requests' = requests + (IF out.requested THEN 1 ELSE 0)
           /\ IF ReturnsResult(out)
              THEN /\ rstate' = "returned"
                   /\ UNCHANGED <<lastError, thrown, retryDelay, sleeps, attempt>>
              ELSE /\ lastError' = RecordError(lastError, err)
                   /\ IF RetryCondition(fn, out.kind, attempt, maxRetries)
                      THEN /\ sleeps' = Append(sleeps, retryDelay)
                           /\ retryDelay' = IncreaseDelay(retryDelay)
                      ELSE UNCHANGED <<sleeps, retryDelay>>
                   /\ IF BreaksLoop(fn, out.kind, attempt, maxRetries)
                         \/ ~LoopCondition(attempt + 1, maxRetries)
                      THEN /\ rstate' = "thrown"
                           /\ thrown' = ThrowAfterLoop(lastError')
                           /\ attempt' = IF BreaksLoop(fn, out.kind, attempt,
                                                       maxRetries)
                                          THEN attempt ELSE attempt + 1
                      ELSE /\ rstate' = "running"
                           /\ thrown' = thrown
                           /\ attempt' = attempt + 1
    /\ UNCHANGED <<fn, maxRetries, initialDelay, inputValid, file>>
    /\ UNCHANGED <<pvars, hvars, mvars, svars, gvars, lvars, fvars, cvars, wvars, qvars>>

(***************************************************************************)
(* Part 2: the pipeline drivers                                            *)
(*                                                                         *)
(* script names the program that runs:                                     *)
(*   "cloudinary"    uploadToPrintful.js, Cloudinary upload   (part_007)   *)
(*   "dropbox"       uploadToPrintful.js, Dropbox upload      (part_008)   *)
(*   "tokenManager"  uploadToPrintful.js, token manager       (part_013)   *)
(*   "fromTemplate"  automatePrintfulProductFromTemplate.js                *)
(*   "direct"        automatePrintfulProduct.js               (part_006)   *)
(***************************************************************************)

Units == 1..MaxUnits

BatchScripts == {"cloudinary", "dropbox", "tokenManager"}
SingleScripts == {"fromTemplate", "direct"}

NoUnit == [content |-> "none", upload |-> "none", fileUrl |-> "none",
           template |-> "none", placeholder |-> "none", sync |-> "none",
           saved |-> FALSE, result |-> "pending"]

\* what the summary prints: the number of files, the successes and failures
\* it reports and, when the sync summary is shown, the synced products
NoSummary == [printed |-> FALSE, total |-> 0, succeeded |-> 0, failed |-> 0,
              syncShown |-> FALSE, synced |-> 0]

\* ways the configuration can be incomplete: PRINTFUL_API_KEY (or, in the
\* Dropbox version, DROPBOX_ACCESS_TOKEN) unset, PRINTFUL_STORE_ID unset and
\* not obtainable from the API, OPENROUTER_API_KEY unset
Configs == {"ok", "noApiKey", "noStoreId", "noOpenRouterKey"}

\* the settings main checks before it enumerates the files; generateListing
\* sends `Bearer ${process.env.OPENROUTER_API_KEY}` without any check
CheckedByMain == {"noApiKey", "noStoreId"}

\* kinds of value processFile returns whose templateInfo or templateOnly
\* property is truthy, and those whose product property is truthy
WithTemplate == {"templateInfo", "templateOnly", "templateInfo+templateOnly",
                 "templateInfo+product"}
WithProduct == {"product", "templateInfo+product"}

\* one stage call made for a unit: which call, whether it succeeded and
\* whether a request left the machine
Event(op, ok, net) == [op |-> op, ok |-> ok, net |-> net]

\* calls to the commerce API that create or update a product
ProductCalls == {"createProductWithEtsySync", "createProductFromTemplate",
                 "updateProductWithAssets", "createNewProduct"}

PipeInit ==
    /\ script = "none"
    /\ DRY_RUN = FALSE
    /\ TEMPLATE_ONLY = FALSE
    /\ SYNC_ONLY = FALSE
    /\ files = 0
    /\ cur = 0
    /\ pc = "idle"
    /\ unit = [u \in Units |-> NoUnit]
    /\ trace = [u \in Units |-> << >>]
    /\ results = << >>
    /\ summary = NoSummary
    /\ exitCode = "none"
    /\ env = "ok"
    /\ VARIANT_IDS = "empty"

\* a handler that switches the run to template-only mode, which no step of
\* the scripts does
ForcesTemplateOnly ==
    /\ TEMPLATE_ONLY' = TRUE
    /\ UNCHANGED <<DRY_RUN, SYNC_ONLY, VARIANT_IDS, env>>

\* processFile and the summary read the mode flags (const), VARIANT_IDS and
\* the environment and assign none of them
RunConfigKept ==
    UNCHANGED <<DRY_RUN, TEMPLATE_ONLY, SYNC_ONLY, VARIANT_IDS, env>>

\* getVariantIds: the map built from the product's variants; when the request
\* fails part_007 and part_008 return a built-in map and part_013 rethrows
getVariantIds(sc, fetchOk) ==
    IF fetchOk THEN "fetched"
    ELSE IF sc = "tokenManager" THEN "thrown" ELSE "default"

\* if (result) results.push(result): null is the only falsy value processFile
\* returns
\* a loop that would push every returned value, which main does not do
AlwaysTruthy(res) == TRUE

Truthy(res) == res # "null"

\* an array that takes its new element in front, which main's results do not
Unshift(arr, x) == <<x>> \o arr

\* results.push(result)
Push(arr, x) == Append(arr, x)

\* main's loop body after processFile returned res for the current file
\* (whose stage outcomes are nu), and the loop's step to the next file or out
\* of the loop
ReturnToMain(nu, res) ==
    /\ unit' = [unit EXCEPT ![cur] = [nu EXCEPT !.result = res]]
    /\ results' = IF Truthy(res) THEN Push(results, <<cur, res>>) ELSE results
    /\ IF cur < files
       THEN /\ cur' = cur + 1
            /\ pc' = "generateListing"
       ELSE /\ cur' = cur
            /\ pc' = "summary"

\* processFile goes on to its next step
Continue(nu, next) ==
    /\ unit' = [unit EXCEPT ![cur] = nu]
    /\ pc' = next
    /\ UNCHANGED <<cur, results>>

\* a stage call is appended to the current file's trace
Log(op, ok, net) ==
    trace' = [trace EXCEPT ![cur] = Append(@, Event(op, ok, net))]

\* main's catch block: console.error and process.exit(1)
ExitOne ==
    /\ pc' = "exited"
    /\ exitCode' = 1

\* main before the loop: files enumerated
EnterLoop(n) ==
    /\ files' = n
    /\ IF n = 0
       THEN /\ cur' = 0
            /\ pc' = "summary"
       ELSE /\ cur' = 1
            /\ pc' = "generateListing"

\* number of entries of main's results array whose kind is in K
CountKinds(K) == Cardinality({i \in 1..Len(results) : results[i][2] \in K})

(***************************************************************************)
(* uploadToPrintful.js, Dropbox upload (part_008, first file)              *)
(***************************************************************************)
\* main up to the loop: in a real run a missing key or token throws
main8_start(dry, n, config, fetchOk) ==
    /\ env' = config
    /\ VARIANT_IDS' = IF dry \/ config \in CheckedByMain THEN VARIANT_IDS
                      ELSE getVariantIds("dropbox", fetchOk)
    /\ UNCHANGED <<rvars, hvars, mvars, svars, gvars, lvars, fvars, cvars, wvars, qvars>>
    /\ pc = "idle"
    /\ script' = "dropbox"
    /\ DRY_RUN' = dry
    /\ UNCHANGED <<TEMPLATE_ONLY, SYNC_ONLY, unit, trace, results, summary>>
    /\ IF ~dry /\ config \in CheckedByMain
       THEN ExitOne /\ UNCHANGED <<files, cur>>
       ELSE EnterLoop(n) /\ UNCHANGED exitCode

\* processFile step 1: generateListing(word), called in dry-run mode too; a
\* failure goes to the outer catch, which returns null; in dry-run mode the
\* function returns right after it
processFile8_generateListing(ok) ==
    /\ RunConfigKept
    /\ (env = "noOpenRouterKey" => ~ok)
    /\ UNCHANGED <<rvars, hvars, mvars, svars, gvars, lvars, fvars, cvars, wvars, qvars>>
    /\ script = "dropbox" /\ pc = "generateListing"
    /\ Log("generateListing", ok, TRUE)
    /\ UNCHANGED <<script, files, summary,
                   exitCode>>
    /\ LET nu == [unit[cur] EXCEPT !.content = IF ok THEN "ok" ELSE "failed"]
       IN  IF ~ok THEN ReturnToMain(nu, "null")
           ELSE IF DRY_RUN THEN ReturnToMain(nu, "dryRun")
           ELSE Continue(nu, "upload")

\* processFile step 2: uploadFileToPrintful; the inner catch replaces a failed
\* upload by a URL made from the file name
processFile8_upload(ok) ==
    /\ RunConfigKept
    /\ UNCHANGED <<rvars, hvars, mvars, svars, gvars, lvars, fvars, cvars, wvars, qvars>>
    /\ script = "dropbox" /\ pc = "upload"
    /\ Log("uploadFileToPrintful", ok, TRUE)
    /\ UNCHANGED <<script, files, summary,
                   exitCode>>
    /\ LET nu == [unit[cur] EXCEPT
                    !.upload = IF ok THEN "ok" ELSE "failed",
                    !.fileUrl = IF ok THEN "uploaded" ELSE "fallback"]
       IN  Continue(nu, "sync")

\* processFile step 5: createProductWithEtsySync; a failure goes to the outer
\* catch, which returns null
processFile8_sync(ok) ==
    /\ RunConfigKept
    /\ UNCHANGED <<rvars, hvars, mvars, svars, gvars, lvars, fvars, cvars, wvars, qvars>>
    /\ script = "dropbox" /\ pc = "sync"
    /\ Log("createProductWithEtsySync", ok, TRUE)
    /\ UNCHANGED <<script, files, summary,
                   exitCode>>
    /\ LET nu == [unit[cur] EXCEPT !.sync = IF ok THEN "ok" ELSE "failed"]
       IN  ReturnToMain(nu, IF ok THEN "product" ELSE "null")

\* main after the loop: the upload summary, then the function returns and the
\* process ends with status 0
main8_summary ==
    /\ RunConfigKept
    /\ UNCHANGED <<rvars, hvars, mvars, svars, gvars, lvars, fvars, cvars, wvars, qvars>>
    /\ script = "dropbox" /\ pc = "summary"
    /\ summary' = [printed |-> TRUE, total |-> files,
                   succeeded |-> Len(results),
                   failed |-> files - Len(results),
                   syncShown |-> FALSE, synced |-> 0]
    /\ pc' = "exited"
    /\ exitCode' = 0
    /\ UNCHANGED <<script, files, cur, unit,
                   trace, results>>

(***************************************************************************)
(* uploadToPrintful.js, Cloudinary upload (part_007)                       *)
(***************************************************************************)
\* main up to the loop: in dry-run mode main only logs the mode, everything
\* else is in the else block; in a real run a missing key or store id throws
main7_start(dry, tonly, sonly, n, config, fetchOk) ==
    /\ env' = config
    /\ VARIANT_IDS' = IF dry \/ config \in CheckedByMain THEN VARIANT_IDS
                      ELSE getVariantIds("cloudinary", fetchOk)
    /\ UNCHANGED <<rvars, hvars, mvars, svars, gvars, lvars, fvars, cvars, wvars, qvars>>
    /\ pc = "idle"
    /\ script' = "cloudinary"
    /\ DRY_RUN' = dry
    /\ TEMPLATE_ONLY' = tonly
    /\ SYNC_ONLY' = sonly
    /\ UNCHANGED <<unit, trace, results, summary>>
    /\ IF dry
       THEN /\ pc' = "exited"
            /\ exitCode' = 0
            /\ UNCHANGED <<files, cur>>
       ELSE IF config \in CheckedByMain
       THEN ExitOne /\ UNCHANGED <<files, cur>>
       ELSE EnterLoop(n) /\ UNCHANGED exitCode

\* processFile step 1: generateListing(word); a failure goes to the outer
\* catch, which returns null
processFile7_generateListing(ok) ==
    /\ RunConfigKept
    /\ (env = "noOpenRouterKey" => ~ok)
    /\ UNCHANGED <<rvars, hvars, mvars, svars, gvars, lvars, fvars, cvars, wvars, qvars>>
    /\ script = "cloudinary" /\ pc = "generateListing"
    /\ Log("generateListing", ok, TRUE)
    /\ UNCHANGED <<script, files, summary,
                   exitCode>>
    /\ LET nu == [unit[cur] EXCEPT !.content = IF ok THEN "ok" ELSE "failed"]
       IN  IF ~ok THEN ReturnToMain(nu, "null")
           ELSE IF DRY_RUN THEN ReturnToMain(nu, "dryRun")
           ELSE Continue(nu, "upload")

\* processFile step 2: uploadFileToPrintful; the inner catch replaces a failed
\* upload by a URL made from the file name
processFile7_upload(ok) ==
    /\ RunConfigKept
    /\ UNCHANGED <<rvars, hvars, mvars, svars, gvars, lvars, fvars, cvars, wvars, qvars>>
    /\ script = "cloudinary" /\ pc = "upload"
    /\ Log("uploadFileToPrintful", ok, TRUE)
    /\ UNCHANGED <<script, files, summary,
                   exitCode>>
    /\ LET nu == [unit[cur] EXCEPT
                    !.upload = IF ok THEN "ok" ELSE "failed",
                    !.fileUrl = IF ok THEN "uploaded" ELSE "fallback"]
       IN  Continue(nu, "template")

\* processFile step 4: both mode flags set returns null; unless sync-only, the
\* template metadata is written to manual-templates/<word>.json (writeOk: the
\* write succeeds); template-only mode returns here, or rethrows a failure
processFile7_template(writeOk) ==
    /\ RunConfigKept
    /\ UNCHANGED <<rvars, hvars, mvars, svars, gvars, lvars, fvars, cvars, wvars, qvars>>
    /\ script = "cloudinary" /\ pc = "template"
    /\ UNCHANGED <<script, files, summary,
                   exitCode>>
    /\ IF TEMPLATE_ONLY /\ SYNC_ONLY
       THEN /\ writeOk
            /\ UNCHANGED trace
            /\ ReturnToMain(unit[cur], "null")
       ELSE IF SYNC_ONLY
       THEN /\ writeOk
            /\ UNCHANGED trace
            /\ Continue(unit[cur], "sync")
       ELSE /\ Log("createProductTemplate", writeOk, FALSE)
            /\ LET nu == [unit[cur] EXCEPT
                            !.template = IF writeOk THEN "ok" ELSE "failed"]
               IN  IF TEMPLATE_ONLY
                   THEN ReturnToMain(nu, IF writeOk THEN "templateInfo"
                                         ELSE "null")
                   ELSE Continue(nu, "sync")

\* processFile step 5: createProductWithEtsySync; its catch returns
\* { templateOnly: true, word } whatever the error was
processFile7_sync(ok) ==
    /\ RunConfigKept
    /\ UNCHANGED <<rvars, hvars, mvars, svars, gvars, lvars, fvars, cvars, wvars, qvars>>
    /\ script = "cloudinary" /\ pc = "sync"
    /\ Log("createProductWithEtsySync", ok, TRUE)
    /\ UNCHANGED <<script, files, summary,
                   exitCode>>
    /\ LET nu == [unit[cur] EXCEPT !.sync = IF ok THEN "ok" ELSE "failed"]
       IN  ReturnToMain(nu, IF ok THEN "product" ELSE "templateOnly")

\* the template and sync summaries of a real run, shared by the Cloudinary
\* and token-manager mains: templatesCreated counts the results with
\* templateInfo or templateOnly, syncedCount those with product
TemplateSummary ==
    [printed |-> TRUE, total |-> files,
     succeeded |-> IF DRY_RUN THEN Len(results) ELSE CountKinds(WithTemplate),
     failed |-> IF DRY_RUN THEN 0 ELSE files - CountKinds(WithTemplate),
     syncShown |-> ~TEMPLATE_ONLY,
     synced |-> IF TEMPLATE_ONLY THEN 0
                ELSE IF DRY_RUN THEN Len(results)
                ELSE CountKinds(WithProduct)]

\* main after the loop: summaries, dashboard upload (its errors are caught),
\* then the function returns and the process ends with status 0
main7_summary ==
    /\ RunConfigKept
    /\ UNCHANGED <<rvars, hvars, mvars, svars, gvars, lvars, fvars, cvars, wvars, qvars>>
    /\ script = "cloudinary" /\ pc = "summary"
    /\ summary' = TemplateSummary
    /\ pc' = "exited"
    /\ exitCode' = 0
    /\ UNCHANGED <<script, files, cur, unit,
                   trace, results>>

(***************************************************************************)
(* uploadToPrintful.js, token-manager version (part_013)                   *)
(***************************************************************************)
\* the value processFile rethrows from its outer catch; main's catch then
\* calls process.exit(1) in the middle of the loop
ThrowToMain(nu) ==
    /\ unit' = [unit EXCEPT ![cur] = [nu EXCEPT !.result = "thrown"]]
    /\ ExitOne
    /\ UNCHANGED <<cur, results>>

\* main up to the loop: the API key is required in every mode, the store id
\* only in a real run
main13_start(dry, tonly, n, config, fetchOk) ==
    /\ env' = config
    /\ UNCHANGED <<rvars, hvars, mvars, svars, gvars, lvars, fvars, cvars, wvars, qvars>>
    /\ pc = "idle"
    /\ script' = "tokenManager"
    /\ DRY_RUN' = dry
    /\ TEMPLATE_ONLY' = tonly
    /\ UNCHANGED <<SYNC_ONLY, unit, trace, results, summary>>
    /\ IF config = "noApiKey" \/ (config = "noStoreId" /\ ~dry)
       THEN ExitOne /\ UNCHANGED <<files, cur, VARIANT_IDS>>
       ELSE IF ~dry /\ getVariantIds("tokenManager", fetchOk) = "thrown"
       THEN ExitOne /\ UNCHANGED <<files, cur, VARIANT_IDS>>
       ELSE /\ EnterLoop(n) /\ UNCHANGED exitCode
            /\ VARIANT_IDS' = IF dry THEN VARIANT_IDS
                              ELSE getVariantIds("tokenManager", fetchOk)

\* processFile step 1: generateListing(word); the outer catch rethrows
processFile13_generateListing(ok) ==
    /\ RunConfigKept
    /\ (env = "noOpenRouterKey" => ~ok)
    /\ UNCHANGED <<rvars, hvars, mvars, svars, gvars, lvars, fvars, cvars, wvars, qvars>>
    /\ script = "tokenManager" /\ pc = "generateListing"
    /\ Log("generateListing", ok, TRUE)
    /\ UNCHANGED <<script, files, summary>>
    /\ LET nu == [unit[cur] EXCEPT !.content = IF ok THEN "ok" ELSE "failed"]
       IN  IF ~ok THEN ThrowToMain(nu)
           ELSE /\ UNCHANGED exitCode
                /\ IF DRY_RUN THEN ReturnToMain(nu, "dryRun")
                   ELSE Continue(nu, "upload")

\* processFile step 2: uploadFileToPrintful inside the inner try, whose catch
\* returns { word, error }
processFile13_upload(ok) ==
    /\ RunConfigKept
    /\ UNCHANGED <<rvars, hvars, mvars, svars, gvars, lvars, fvars, cvars, wvars, qvars>>
    /\ script = "tokenManager" /\ pc = "upload"
    /\ Log("uploadFileToPrintful", ok, TRUE)
    /\ UNCHANGED <<script, files, summary,
                   exitCode>>
    /\ LET nu == [unit[cur] EXCEPT
                    !.upload = IF ok THEN "ok" ELSE "failed",
                    !.fileUrl = IF ok THEN "uploaded" ELSE "none"]
       IN  IF ok THEN Continue(nu, "template")
           ELSE ReturnToMain(nu, "error")

\* the manual template file and createProductTemplate (ok: both succeed);
\* template-only mode returns { word, templateInfo, templateOnly: true }
processFile13_template(ok) ==
    /\ RunConfigKept
    /\ UNCHANGED <<rvars, hvars, mvars, svars, gvars, lvars, fvars, cvars, wvars, qvars>>
    /\ script = "tokenManager" /\ pc = "template"
    /\ Log("createProductTemplate", ok, FALSE)
    /\ UNCHANGED <<script, files, summary,
                   exitCode>>
    /\ LET nu == [unit[cur] EXCEPT
                    !.template = IF ok THEN "ok" ELSE "failed"]
       IN  IF ~ok THEN ReturnToMain(nu, "error")
           ELSE IF TEMPLATE_ONLY
           THEN ReturnToMain(nu, "templateInfo+templateOnly")
           ELSE Continue(nu, "sync")

\* createProductWithEtsySync, then the product-info file (saveOk: the write
\* succeeds); a failure of either reaches the inner catch
processFile13_sync(ok, saveOk) ==
    /\ RunConfigKept
    /\ UNCHANGED <<rvars, hvars, mvars, svars, gvars, lvars, fvars, cvars, wvars, qvars>>
    /\ script = "tokenManager" /\ pc = "sync"
    /\ (~ok => saveOk)
    /\ Log("createProductWithEtsySync", ok, TRUE)
    /\ UNCHANGED <<script, files, summary,
                   exitCode>>
    /\ LET nu == [unit[cur] EXCEPT !.sync = IF ok THEN "ok" ELSE "failed",
                                   !.saved = ok /\ saveOk]
       IN  ReturnToMain(nu, IF ok /\ saveOk THEN "templateInfo+product"
                            ELSE "error")

\* main after the loop
main13_summary ==
    /\ RunConfigKept
    /\ UNCHANGED <<rvars, hvars, mvars, svars, gvars, lvars, fvars, cvars, wvars, qvars>>
    /\ script = "tokenManager" /\ pc = "summary"
    /\ summary' = TemplateSummary
    /\ pc' = "exited"
    /\ exitCode' = 0
    /\ UNCHANGED <<script, files, cur, unit,
                   trace, results>>

(***************************************************************************)
(* automatePrintfulProductFromTemplate.js: one product per run             *)
(***************************************************************************)
\* the end of a single-product run: the promise settles and the process exits
Settle(nu, res, code) ==
    /\ unit' = [unit EXCEPT ![cur] = [nu EXCEPT !.result = res]]
    /\ pc' = "exited"
    /\ exitCode' = code

\* one step of automateProductCreation that succeeded or threw
Step(nu, ok, next) ==
    IF ok
    THEN /\ unit' = [unit EXCEPT ![cur] = nu]
         /\ pc' = next
         /\ UNCHANGED exitCode
    ELSE Settle(nu, "thrown", 1)

\* the command line: --dry-run lists the steps, checks that the mockup file
\* exists and exits; otherwise automateProductCreation checks the file itself
automateProductCreationT_start(dry, exists) ==
    /\ env' = "ok"
    /\ UNCHANGED VARIANT_IDS
    /\ UNCHANGED <<rvars, hvars, mvars, svars, gvars, lvars, fvars, cvars, wvars, qvars>>
    /\ pc = "idle"
    /\ script' = "fromTemplate"
    /\ DRY_RUN' = dry
    /\ files' = 1
    /\ cur' = 1
    /\ UNCHANGED <<TEMPLATE_ONLY, SYNC_ONLY, trace, results, summary>>
    /\ IF dry
       THEN /\ unit' = [unit EXCEPT ![1] = [@ EXCEPT !.result = "dryRun"]]
            /\ pc' = "exited"
            /\ exitCode' = IF exists THEN 0 ELSE 1
       ELSE IF ~exists
       THEN /\ unit' = [unit EXCEPT ![1] = [@ EXCEPT !.result = "thrown"]]
            /\ pc' = "exited"
            /\ exitCode' = 1
       ELSE /\ pc' = "createProductFromTemplate"
            /\ UNCHANGED <<unit, exitCode>>

\* step 1/4: the placeholder product is created before anything else
automateProductCreationT_createProductFromTemplate(ok) ==
    /\ RunConfigKept
    /\ UNCHANGED <<rvars, hvars, mvars, svars, gvars, lvars, fvars, cvars, wvars, qvars>>
    /\ script = "fromTemplate" /\ pc = "createProductFromTemplate"
    /\ Log("createProductFromTemplate", ok, TRUE)
    /\ UNCHANGED <<script, files, cur,
                   results, summary>>
    /\ Step([unit[cur] EXCEPT !.placeholder = IF ok THEN "ok" ELSE "failed"],
            ok, "generateProductText")

\* step 2/4
automateProductCreationT_generateProductText(ok) ==
    /\ RunConfigKept
    /\ UNCHANGED <<rvars, hvars, mvars, svars, gvars, lvars, fvars, cvars, wvars, qvars>>
    /\ script = "fromTemplate" /\ pc = "generateProductText"
    /\ Log("generateProductText", ok, TRUE)
    /\ UNCHANGED <<script, files, cur,
                   results, summary>>
    /\ Step([unit[cur] EXCEPT !.content = IF ok THEN "ok" ELSE "failed"],
            ok, "uploadMockupToDropbox")

\* step 3/4
automateProductCreationT_uploadMockupToDropbox(ok) ==
    /\ RunConfigKept
    /\ UNCHANGED <<rvars, hvars, mvars, svars, gvars, lvars, fvars, cvars, wvars, qvars>>
    /\ script = "fromTemplate" /\ pc = "uploadMockupToDropbox"
    /\ Log("uploadMockupToDropbox", ok, TRUE)
    /\ UNCHANGED <<script, files, cur,
                   results, summary>>
    /\ Step([unit[cur] EXCEPT !.upload = IF ok THEN "ok" ELSE "failed",
                              !.fileUrl = IF ok THEN "uploaded" ELSE "none"],
            ok, "updateProductWithAssets")

\* step 4/4 and the product-info file (saveOk: the write succeeds)
automateProductCreationT_updateProductWithAssets(ok, saveOk) ==
    /\ RunConfigKept
    /\ UNCHANGED <<rvars, hvars, mvars, svars, gvars, lvars, fvars, cvars, wvars, qvars>>
    /\ script = "fromTemplate" /\ pc = "updateProductWithAssets"
    /\ (~ok => saveOk)
    /\ Log("updateProductWithAssets", ok, TRUE)
    /\ UNCHANGED <<script, files, cur,
                   results, summary>>
    /\ LET nu == [unit[cur] EXCEPT !.sync = IF ok THEN "ok" ELSE "failed",
                                   !.saved = ok /\ saveOk]
       IN  IF ok /\ saveOk THEN Settle(nu, "product", 0)
           ELSE Settle(nu, "thrown", 1)

(***************************************************************************)
(* automatePrintfulProduct.js (part_006): one design per run               *)
(***************************************************************************)
\* automateProductCreation checks the mockup file in every mode
automateProductCreationD_start(dry, exists) ==
    /\ env' = "ok"
    /\ UNCHANGED VARIANT_IDS
    /\ UNCHANGED <<rvars, hvars, mvars, svars, gvars, lvars, fvars, cvars, wvars, qvars>>
    /\ pc = "idle"
    /\ script' = "direct"
    /\ DRY_RUN' = dry
    /\ files' = 1
    /\ cur' = 1
    /\ UNCHANGED <<TEMPLATE_ONLY, SYNC_ONLY, trace, results, summary>>
    /\ IF ~exists
       THEN /\ unit' = [unit EXCEPT ![1] = [@ EXCEPT !.result = "thrown"]]
            /\ pc' = "exited"
            /\ exitCode' = 1
       ELSE /\ pc' = "generateProductText"
            /\ UNCHANGED <<unit, exitCode>>

\* step 1/3: a dry run uses placeholder text instead of calling the model
automateProductCreationD_generateProductText(ok) ==
    /\ RunConfigKept
    /\ UNCHANGED <<rvars, hvars, mvars, svars, gvars, lvars, fvars, cvars, wvars, qvars>>
    /\ script = "direct" /\ pc = "generateProductText"
    /\ UNCHANGED <<script, files, cur,
                   results, summary>>
    /\ IF DRY_RUN
       THEN /\ ok
            /\ UNCHANGED trace
            /\ Step([unit[cur] EXCEPT !.content = "placeholder"], TRUE,
                    "uploadMockupToDropbox")
       ELSE /\ Log("generateProductText", ok, TRUE)
            /\ Step([unit[cur] EXCEPT
                       !.content = IF ok THEN "ok" ELSE "failed"],
                    ok, "uploadMockupToDropbox")

\* step 2/3: a dry run uses https://example.com/dry-run-mockup.png
automateProductCreationD_uploadMockupToDropbox(ok) ==
    /\ RunConfigKept
    /\ UNCHANGED <<rvars, hvars, mvars, svars, gvars, lvars, fvars, cvars, wvars, qvars>>
    /\ script = "direct" /\ pc = "uploadMockupToDropbox"
    /\ UNCHANGED <<script, files, cur,
                   results, summary>>
    /\ IF DRY_RUN
       THEN /\ ok
            /\ UNCHANGED trace
            /\ Step([unit[cur] EXCEPT !.fileUrl = "example"], TRUE,
                    "createNewProduct")
       ELSE /\ Log("uploadMockupToDropbox", ok, TRUE)
            /\ Step([unit[cur] EXCEPT
                       !.upload = IF ok THEN "ok" ELSE "failed",
                       !.fileUrl = IF ok THEN "uploaded" ELSE "none"],
                    ok, "createNewProduct")

\* step 3/3 and the product-info file, which is written in a dry run too
automateProductCreationD_createNewProduct(ok, saveOk) ==
    /\ RunConfigKept
    /\ UNCHANGED <<rvars, hvars, mvars, svars, gvars, lvars, fvars, cvars, wvars, qvars>>
    /\ script = "direct" /\ pc = "createNewProduct"
    /\ (~ok => saveOk)
    /\ (DRY_RUN => ok)
    /\ UNCHANGED <<script, files, cur,
                   results, summary>>
    /\ IF DRY_RUN THEN UNCHANGED trace
       ELSE Log("createNewProduct", ok, TRUE)
    /\ LET nu == [unit[cur] EXCEPT
                    !.sync = IF DRY_RUN THEN "skipped"
                             ELSE IF ok THEN "ok" ELSE "failed",
                    !.saved = ok /\ saveOk]
       IN  IF ok /\ saveOk
           THEN Settle(nu, IF DRY_RUN THEN "dryRun" ELSE "product", 0)
           ELSE Settle(nu, "thrown", 1)

(***************************************************************************)
(* Part 3: uploads to Dropbox and the shared link of the uploaded file     *)
(*                                                                         *)
(* The host answers every request according to its state: filesUpload in   *)
(* overwrite mode always stores the file, and creating a shared link for a *)
(* file that has one is refused with shared_link_already_exists.           *)
(***************************************************************************)
FileNames == {"apple.png", "pear.png", "plum.png"}

\* what the promise of an SDK call resolves to: the answer of the API itself
\* (fields at top level) or an object that holds the answer under .result
SdkShapes == {"flat", "wrapped"}

NoUrl == [kind |-> "none", id |-> 0]
\* the URL of shared link number n of the file
LinkUrl(n) == [kind |-> "link", id |-> n]
\* https://dl.dropboxusercontent.com<path>, built from the path of the file
PathUrl == [kind |-> "path", id |-> 0]

NoUpload == [by |-> "none", file |-> "none", conflict |-> FALSE, ok |-> FALSE,
             url |-> NoUrl, attempts |-> 0]

HostInit ==
    /\ sdk \in SdkShapes
    /\ hostFiles = {}
    /\ hostLinks = [f \in FileNames |-> 0]
    /\ last = NoUpload

\* response.field  read from the value the SDK call resolved to
TopLevelField(shape) == shape = "flat"

\* response?.result?.field || response?.field
EitherField(shape) == TRUE

\* the record of a finished call; a failing attempt leaves the host as it
\* was, so every attempt of the retry loop fails alike and the call throws
\* after maxRetries attempts
Uploaded(by, f, conflict, ok, url) ==
    last' = [by |-> by, file |-> f, conflict |-> conflict, ok |-> ok,
             url |-> IF ok THEN url ELSE NoUrl,
             attempts |-> IF ok THEN 1 ELSE DefaultMaxRetries]

\* uploadMockupToDropbox of the template script: the link is created for
\* uploadResponse.path_display; on a conflict the first link listed for that
\* path is used
fromTemplate_uploadMockupToDropbox(f) ==
    LET pathKnown == TopLevelField(sdk)
        conflict == pathKnown /\ hostLinks[f] > 0
        listed == TopLevelField(sdk)
        ok == pathKnown /\ (conflict => listed)
    IN  /\ hostFiles' = hostFiles \cup {f}
        /\ hostLinks' = IF pathKnown /\ ~conflict
                        THEN [hostLinks EXCEPT ![f] = 1] ELSE hostLinks
        /\ Uploaded("fromTemplate", f, conflict, ok, LinkUrl(hostLinks'[f]))
        /\ UNCHANGED <<sdk, rvars, pvars, mvars, svars, gvars, lvars, fvars, cvars, wvars, qvars>>

\* uploadMockupToDropbox of part_006: the path falls back to the one asked
\* for; on a conflict the links are listed and matched by path, and when the
\* list has no links the link is created again, then by the legacy call, which
\* answers with the existing link; a response without url gives the path URL
direct_uploadMockupToDropbox(f) ==
    LET conflict == hostLinks[f] > 0
        hasUrl == TopLevelField(sdk)
    IN  /\ hostFiles' = hostFiles \cup {f}
        /\ hostLinks' = IF conflict THEN hostLinks
                        ELSE [hostLinks EXCEPT ![f] = 1]
        /\ Uploaded("direct", f, conflict, TRUE,
                    IF hasUrl THEN LinkUrl(hostLinks'[f]) ELSE PathUrl)
        /\ UNCHANGED <<sdk, rvars, pvars, mvars, svars, gvars, lvars, fvars, cvars, wvars, qvars>>

\* the conflict path of createSharedLink (part_008): const { links } = await
\* sharingListSharedLinks(...), links.length, revoke of links[0], and the
\* link created again
RevokeAndRecreate(shape) == TopLevelField(shape)

\* uploadFileToPrintful of part_008: uploadFileToDropbox, createSharedLink,
\* then the link is handed to POST /files
dropbox_uploadFileToPrintful(f) ==
    LET conflict == hostLinks[f] > 0
        ok == (conflict => RevokeAndRecreate(sdk)) /\ EitherField(sdk)
    IN  /\ (conflict /\ ok) => hostLinks[f] < MaxLinkGen
        /\ hostFiles' = hostFiles \cup {f}
        /\ hostLinks' = IF ~ok THEN hostLinks
                        ELSE [hostLinks EXCEPT ![f] = hostLinks[f] + 1]
        /\ Uploaded("dropbox", f, conflict, ok, LinkUrl(hostLinks'[f]))
        /\ UNCHANGED <<sdk, rvars, pvars, mvars, svars, gvars, lvars, fvars, cvars, wvars, qvars>>

(***************************************************************************)
(* Part 4: generateListing's parsing of the completion                     *)
(*                                                                         *)
(* parser names the version that runs:                                     *)
(*   "part_011"     generateListing of part_011, three parsing steps       *)
(*   "openRouter"   generateListingFromOpenRouter.js, JSON.parse only      *)
(***************************************************************************)
Parsers == {"part_011", "openRouter"}

\* the fields the extraction by regular expressions looks for
ListingFields == {"title", "emojis", "description", "tags"}

\* a completion, by what the parsing steps find in it:
\*   whole   JSON.parse(message) succeeds
\*   braces  the text from the first { to the last } of the cleaned message
\*           is valid JSON
\*   fields  the fields whose  "name": ...  pattern occurs in the message
Messages == [whole : BOOLEAN, braces : BOOLEAN, fields : SUBSET ListingFields]

NoMessage == [whole |-> FALSE, braces |-> FALSE, fields |-> {}]

\* the outcome of a parsing: returned or thrown, the step that produced the
\* value, and the fields that the extraction filled
NotParsed == [ok |-> FALSE, by |-> "none", filled |-> {}, error |-> "none"]

ParseInit ==
    /\ parser = "none"
    /\ message = NoMessage
    /\ parsed = NotParsed

\* part_011: JSON.parse of the text between braces, else JSON.parse of the
\* message, else an object built from the regex matches, "" or [] for what
\* did not match
Parse11(msg) ==
    IF msg.braces
    THEN [ok |-> TRUE, by |-> "braces", filled |-> {}, error |-> "none"]
    ELSE IF msg.whole
    THEN [ok |-> TRUE, by |-> "strict", filled |-> {}, error |-> "none"]
    ELSE [ok |-> TRUE, by |-> "extraction", filled |-> msg.fields,
          error |-> "none"]

\* generateListingFromOpenRouter.js: JSON.parse(message), and its SyntaxError
\* rethrown
ParseOpenRouter(msg) ==
    IF msg.whole
    THEN [ok |-> TRUE, by |-> "strict", filled |-> {}, error |-> "none"]
    ELSE [ok |-> FALSE, by |-> "none", filled |-> {}, error |-> "SyntaxError"]

generateListing11_parse(msg) ==
    /\ parser' = "part_011"
    /\ message' = msg
    /\ parsed' = Parse11(msg)
    /\ UNCHANGED <<rvars, pvars, hvars, svars, gvars, lvars, fvars, cvars, wvars, qvars>>

generateListingOR_parse(msg) ==
    /\ parser' = "openRouter"
    /\ message' = msg
    /\ parsed' = ParseOpenRouter(msg)
    /\ UNCHANGED <<rvars, pvars, hvars, svars, gvars, lvars, fvars, cvars, wvars, qvars>>

(***************************************************************************)
(* Part 5: store credentials and the price of a product                    *)
(*                                                                         *)
(* Prices are counted in cents. A JavaScript value is a record: its type,  *)
(* its number when it is one (nan for NaN), its text when it is a string.  *)
(***************************************************************************)
EnvKeys == {"PRINTFUL_API_KEY", "PRINTFUL_STORE_ID",
            "PRINTFUL_ETSY_API_KEY", "PRINTFUL_ETSY_STORE_ID"}

\* a setting holds its own value, named after the key, or is unset
Environments == {e \in [EnvKeys -> EnvKeys \cup {"undefined"}] :
                    \A k \in EnvKeys : e[k] \in {k, "undefined"}}

StoreTypes == {"manual", "etsy", "shopify"}

JsNumber(c) == [t |-> "number", nan |-> FALSE, v |-> c, text |-> ""]
JsNaN == [t |-> "number", nan |-> TRUE, v |-> 0, text |-> ""]
JsString(str) == [t |-> "string", nan |-> FALSE, v |-> 0, text |-> str]
JsUndefined == [t |-> "undefined", nan |-> FALSE, v |-> 0, text |-> ""]

\* the texts a price is given as
PriceTexts == {"45.99", "0", "-5", "abc", "12abc", ""}

\* the values createNewProduct is called with as price
PriceValues == {JsNumber(4599), JsNumber(0), JsNumber(0 - 500), JsNaN,
                JsUndefined} \cup {JsString(str) : str \in PriceTexts}

\* parseFloat(text): the longest numeric prefix, NaN when there is none
parseFloat(str) ==
    CASE str = "45.99" -> JsNumber(4599)
      [] str = "0"     -> JsNumber(0)
      [] str = "-5"    -> JsNumber(0 - 500)
      [] str = "12abc" -> JsNumber(1200)
      [] OTHER         -> JsNaN

\* Number(text), the conversion isNaN applies to a string: the whole text
\* must be numeric, and the empty text is 0
ToNumber(x) ==
    IF x.t = "number" THEN x
    ELSE IF x.t = "undefined" THEN JsNaN
    ELSE CASE x.text = "45.99" -> JsNumber(4599)
           [] x.text = "0"     -> JsNumber(0)
           [] x.text = "-5"    -> JsNumber(0 - 500)
           [] x.text = ""      -> JsNumber(0)
           [] OTHER            -> JsNaN

isNaN(x) == ToNumber(x).nan

\* the truth value of a JavaScript value, as  !price  takes it
JsTruthy(x) ==
    CASE x.t = "number" -> ~x.nan /\ x.v # 0
      [] x.t = "string" -> x.text # ""
      [] OTHER          -> FALSE

\* a validation that also refuses what is not above zero, which
\* createSingleProduct does not do
PricePositive(x) == JsTruthy(x) /\ ~isNaN(x) /\ ToNumber(x).v > 0

\* if (!price || isNaN(price)) throw new Error('Price must be a valid number')
PriceAccepted(x) == ~(~JsTruthy(x) \/ isNaN(x))

\* the --price= option of automatePrintfulProduct.js: options.price keeps
\* DEFAULT_PRICE unless parseFloat gives a number
CliPrice(arg) ==
    IF arg = "absent" \/ isNaN(parseFloat(arg)) THEN JsNumber(DEFAULT_PRICE)
    ELSE parseFloat(arg)

\* getStoreCredentials(storeType), read from the environment penv
getStoreCredentials(st, penv) ==
    IF st = "etsy"
    THEN [apiKey  |-> penv["PRINTFUL_ETSY_API_KEY"],
          storeId |-> penv["PRINTFUL_ETSY_STORE_ID"],
          name    |-> "Etsy-linked store"]
    ELSE [apiKey  |-> penv["PRINTFUL_API_KEY"],
          storeId |-> penv["PRINTFUL_STORE_ID"],
          name    |-> "Manual/API store"]

\* a loop that turns to the Etsy store when it retries, which
\* createSingleProduct does not do
CredentialsOfEtsyOnRetry(a, st, penv) ==
    getStoreCredentials(IF a > 1 THEN "etsy" ELSE st, penv)

\* const storeCredentials = getStoreCredentials(storeType), at attempt a
CredentialsAt(a, st, penv) == getStoreCredentials(st, penv)

StoreInit ==
    /\ processEnv = [k \in EnvKeys |-> k]
    /\ storeType = "manual"
    /\ price = JsNumber(DEFAULT_PRICE)
    /\ run = "idle"
    /\ tried = 0
    /\ used = << >>
    /\ sent = << >>

\* the locals of a call of createSingleProduct before its loop
StartRun(penv, st, p) ==
    /\ processEnv' = penv
    /\ storeType' = st
    /\ price' = p
    /\ run' = "running"
    /\ tried' = 0
    /\ used' = << >>
    /\ sent' = << >>
    /\ UNCHANGED <<rvars, pvars, hvars, mvars, gvars, lvars, fvars, cvars, wvars, qvars>>

\* createNewProduct called by a program with any price and store type
createNewProduct_call(penv, st, p) ==
    /\ run \in {"idle", "returned", "thrown"}
    /\ StartRun(penv, st, p)

\* automatePrintfulProduct.js run from the command line: --etsy selects the
\* store type and --price= the price
automatePrintfulProduct_cli(penv, etsy, arg) ==
    /\ run \in {"idle", "returned", "thrown"}
    /\ StartRun(penv, IF etsy THEN "etsy" ELSE "manual", CliPrice(arg))

\* one iteration of createSingleProduct's loop: the credentials are read,
\* the arguments validated, the request sent with the API key and the price
createSingleProduct_attempt(ok) ==
    /\ run = "running"
    /\ tried < DefaultMaxRetries
    /\ LET creds == CredentialsAt(tried + 1, storeType, processEnv)
           valid == PriceAccepted(price)
       IN  /\ used' = Append(used, creds)
           /\ sent' = IF valid
                      THEN Append(sent, [apiKey |-> creds.apiKey,
                                         price |-> price])
                      ELSE sent
           /\ tried' = tried + 1
           /\ run' = IF valid /\ ok THEN "returned"
                     ELSE IF tried + 1 < DefaultMaxRetries THEN "running"
                     ELSE "thrown"
    /\ UNCHANGED <<processEnv, storeType, price>>
    /\ UNCHANGED <<rvars, pvars, hvars, mvars, gvars, lvars, fvars, cvars, wvars, qvars>>

\* the credentials uploadToPrintful.js works with: the constant
\* PRINTFUL_API_KEY and the store id of process.env
BatchCredentials(penv) ==
    [apiKey  |-> penv["PRINTFUL_API_KEY"],
     storeId |-> penv["PRINTFUL_STORE_ID"],
     name    |-> "Manual/API store"]

\* main of uploadToPrintful.js: a store id missing from the configuration is
\* taken from getStoreInfo() and written to process.env
StoreIdResolved(penv) ==
    IF penv["PRINTFUL_STORE_ID"] = "undefined"
    THEN [penv EXCEPT !["PRINTFUL_STORE_ID"] = "fetched"]
    ELSE penv

\* main of uploadToPrintful.js up to its loop, in a real run: the API key
\* must be set, and the store id set or obtained from the API
main_credentials(penv, fetchOk) ==
    /\ run \in {"idle", "returned", "thrown"}
    /\ storeType' = "manual"
    /\ price' = JsNumber(BatchRetailPrice)
    /\ tried' = 0
    /\ used' = << >>
    /\ sent' = << >>
    /\ IF penv["PRINTFUL_API_KEY"] = "undefined"
       THEN /\ processEnv' = penv
            /\ run' = "thrown"
       ELSE IF penv["PRINTFUL_STORE_ID"] = "undefined" /\ ~fetchOk
       THEN /\ processEnv' = penv
            /\ run' = "thrown"
       ELSE /\ processEnv' = StoreIdResolved(penv)
            /\ run' = "batch"
    /\ UNCHANGED <<rvars, pvars, hvars, mvars, gvars, lvars, fvars, cvars, wvars, qvars>>

\* a request of uploadToPrintful.js through printfulApi, whose Authorization
\* header was built from PRINTFUL_API_KEY when the script was loaded
printfulApi_request ==
    /\ run = "batch"
    /\ tried < MaxUnits
    /\ used' = Append(used, BatchCredentials(processEnv))
    /\ sent' = Append(sent, [apiKey |-> BatchCredentials(processEnv).apiKey,
                             price |-> price])
    /\ tried' = tried + 1
    /\ run' = IF tried + 1 < MaxUnits THEN "batch" ELSE "returned"
    /\ UNCHANGED <<processEnv, storeType, price>>
    /\ UNCHANGED <<rvars, pvars, hvars, mvars, gvars, lvars, fvars, cvars, wvars, qvars>>

(***************************************************************************)
(* Part 6: generate.js, the export of one design per row of words.csv      *)
(***************************************************************************)
Rows == 1..MaxRows

NoExport == [printed |-> FALSE, successful |-> 0, failed |-> 0]

GenerateInit ==
    /\ rows = 0
    /\ tasks = [i \in Rows |-> "none"]
    /\ gpc = "idle"
    /\ exported = NoExport

\* the 'end' handler of the CSV stream up to its await: the loop writes the
\* script of each row and starts its Illustrator task with execPromise,
\* without awaiting it, then waits for all of them with Promise.allSettled
generate_main(n) ==
    /\ gpc = "idle"
    /\ rows' = n
    /\ tasks' = [i \in Rows |-> IF i <= n THEN "pending" ELSE "none"]
    /\ gpc' = "waiting"
    /\ UNCHANGED exported
    /\ UNCHANGED <<rvars, pvars, hvars, mvars, svars, lvars, fvars, cvars, wvars, qvars>>

\* the osascript process of row i ends: .then returns the word, .catch
\* rethrows
generate_task(i, ok) ==
    /\ gpc = "waiting"
    /\ tasks[i] = "pending"
    /\ tasks' = [tasks EXCEPT ![i] = IF ok THEN "fulfilled" ELSE "rejected"]
    /\ UNCHANGED <<rows, gpc, exported>>
    /\ UNCHANGED <<rvars, pvars, hvars, mvars, svars, lvars, fvars, cvars, wvars, qvars>>

\* after Promise.allSettled: the export summary, and main resolves
generate_summary ==
    /\ gpc = "waiting"
    /\ \A i \in Rows : tasks[i] # "pending"
    /\ exported' = [printed    |-> TRUE,
                    successful |-> Cardinality({i \in Rows :
                                                  tasks[i] = "fulfilled"}),
                    failed     |-> Cardinality({i \in Rows :
                                                  tasks[i] = "rejected"})]
    /\ gpc' = "done"
    /\ UNCHANGED <<rows, tasks>>
    /\ UNCHANGED <<rvars, pvars, hvars, mvars, svars, lvars, fvars, cvars, wvars, qvars>>

(***************************************************************************)
(* Part 7: the record files (product-info, manual-templates)               *)
(*                                                                         *)
(* A run takes far longer than a millisecond, so Date.now() of a run is    *)
(* later than that of the run before.                                      *)
(***************************************************************************)
Designs == {"apple", "pear"}

\* `${word}-${Date.now()}.json`
StampedName(d, t) == [design |-> d, stamp |-> t]

\* `${word}.json`
PlainName(d) == [design |-> d, stamp |-> 0]

NoRun == [script |-> "none", design |-> "none", synced |-> FALSE,
          wrote |-> FALSE]

LogInit ==
    /\ clock = 1
    /\ logFiles = {}
    /\ written = << >>
    /\ lastRun = NoRun

\* fs.writeFileSync(name, ...) by the run number n: a file of that name is
\* replaced
WriteFile(fs, name, n) ==
    {f \in fs : f.name # name} \cup {[name |-> name, by |-> n]}

\* a run of a script on design d that synced or not and, if write, saved its
\* record under name
RecordRun(sc, d, synced, write, name) ==
    /\ Len(written) < MaxRuns
    /\ clock < MaxRuns + 1
    /\ clock' = clock + 1
    /\ lastRun' = [script |-> sc, design |-> d, synced |-> synced,
                   wrote |-> write]
    /\ logFiles' = IF write THEN WriteFile(logFiles, name, clock)
                   ELSE logFiles
    /\ written' = IF write THEN Append(written, [name |-> name, by |-> clock])
                  ELSE written
    /\ UNCHANGED <<rvars, pvars, hvars, mvars, svars, gvars, fvars, cvars, wvars, qvars>>

\* automatePrintfulProductFromTemplate.js: product-info/<text>-<now>.json
\* after updateProductWithAssets succeeded
fromTemplate_saveProductInfo(d, ok) ==
    /\ d \in Designs
    /\ RecordRun("fromTemplate", d, ok, ok, StampedName(d, clock))

\* automatePrintfulProduct.js (part_006): product-info/<text>-<now>.json
\* after createNewProduct succeeded, and in a dry run, which creates nothing
direct_saveProductInfo(d, dry, ok) ==
    /\ d \in Designs
    /\ RecordRun("direct", d, ~dry /\ ok, dry \/ ok, StampedName(d, clock))

\* uploadToPrintful.js (part_013): product-info/<word>-<now>.json after
\* createProductWithEtsySync succeeded
processFile13_saveListing(d, ok) ==
    /\ d \in Designs
    /\ RecordRun("tokenManager", d, ok, ok, StampedName(d, clock))

\* uploadToPrintful.js (part_007): manual-templates/<word>.json once the
\* template is created, before the sync is attempted
processFile7_saveMetadata(d, templateOk, syncOk) ==
    /\ d \in Designs
    /\ RecordRun("cloudinary", d, syncOk, templateOk, PlainName(d))

(***************************************************************************)
(* Part 8: activations of createSingleProduct                              *)
(*                                                                         *)
(* maxRetries and retryDelay are parameters and attempt and lastError are  *)
(* declared inside the function: every call has its own.  The awaits let   *)
(* the iterations of two calls interleave.                                 *)
(***************************************************************************)
Activations == {1, 2}

NoFrame == [state |-> "idle", maxRetries |-> DefaultMaxRetries,
            initialDelay |-> DefaultRetryDelay,
            retryDelay |-> Rat(DefaultRetryDelay), attempt |-> 1,
            failures |-> 0, sleeps |-> << >>]

FrameInit == frames = [a \in Activations |-> NoFrame]

\* a single binding at module level, which createSingleProduct does not have
ModuleLevel(fs, a) == fs[1]

\* the bindings an activation reads: its own parameters and locals
LocalOf(fs, a) == fs[a]

\* a call of createSingleProduct({ ..., maxRetries: m, retryDelay: d })
createSingleProduct_enter(a, m, d) ==
    /\ frames[a].state \in {"idle", "returned", "thrown"}
    /\ frames' = [frames EXCEPT ![a] =
                     [state |-> "running", maxRetries |-> m,
                      initialDelay |-> d, retryDelay |-> Rat(d),
                      attempt |-> 1, failures |-> 0, sleeps |-> << >>]]
    /\ UNCHANGED <<rvars, pvars, hvars, mvars, svars, gvars, lvars, cvars, wvars, qvars>>

\* one iteration of the loop of activation a: the try-body returns, or the
\* catch block sleeps and increases the delay when another attempt follows
createSingleProduct_iteration(a, ok) ==
    /\ frames[a].state = "running"
    /\ LET fr == LocalOf(frames, a)
       IN  /\ LoopCondition(fr.attempt, fr.maxRetries)
           /\ frames' = [frames EXCEPT ![a] =
                 IF ok
                 THEN [frames[a] EXCEPT !.state = "returned",
                                        !.attempt = fr.attempt,
                                        !.retryDelay = fr.retryDelay]
                 ELSE [frames[a] EXCEPT
                         !.failures = @ + 1,
                         !.attempt = fr.attempt + 1,
                         !.sleeps =
                             IF RetryCondition("createSingleProduct", "http5xx",
                                               fr.attempt, fr.maxRetries)
                             THEN Append(@, fr.retryDelay) ELSE @,
                         !.retryDelay =
                             IF RetryCondition("createSingleProduct", "http5xx",
                                               fr.attempt, fr.maxRetries)
                             THEN IncreaseDelay(fr.retryDelay)
                             ELSE fr.retryDelay,
                         !.state =
                             IF LoopCondition(fr.attempt + 1, fr.maxRetries)
                             THEN "running" ELSE "thrown"]]
    /\ UNCHANGED <<rvars, pvars, hvars, mvars, svars, gvars, lvars, cvars, wvars, qvars>>

(***************************************************************************)
(* Part 9: createNewProduct, one product per color                         *)
(*                                                                         *)
(* Colors are numbered in the order of availableColors.  A call of         *)
(* createSingleProduct is one entry of the timeline: when it throws, its   *)
(* last request was its last attempt, which no sleep follows.              *)
(***************************************************************************)
Modes == [allColors : BOOLEAN, allSizes : BOOLEAN, allVariants : BOOLEAN]

NoMode == [allColors |-> FALSE, allSizes |-> FALSE, allVariants |-> FALSE]

Created(c, ok) == [op |-> "createSingleProduct", color |-> c, ok |-> ok]
Waited(c) == [op |-> "setTimeout", color |-> c, ok |-> TRUE]

ColorInit ==
    /\ cpc = "idle"
    /\ mode = NoMode
    /\ colorsToUse = 0
    /\ currentColor = 0
    /\ createdProducts = << >>
    /\ timeline = << >>

\* a catch block that gives up the remaining colors, which createNewProduct's
\* does not
BreakOnError(c, n) == n + 1

\* the catch block only logs: the loop goes on with the next color
AfterCatch(c, n) == c + 1

\* if (completedProducts < totalProducts): the wait after a product was
\* created
WaitsAfter(completed, total) == completed < total

\* createNewProduct up to the loop: with one of the all-options the variants
\* are fetched first (a failure is thrown to the caller), and the loop runs
\* over every available color (allColors, allVariants) or over the one color
\* given; without them there is no loop
createNewProduct_start(opts, n, fetchOk) ==
    /\ cpc \in {"idle", "returned", "thrown"}
    /\ mode' = opts
    /\ createdProducts' = << >>
    /\ timeline' = << >>
    /\ IF opts.allColors \/ opts.allSizes \/ opts.allVariants
       THEN IF fetchOk
            THEN /\ cpc' = "loop"
                 /\ colorsToUse' = IF opts.allColors \/ opts.allVariants
                                   THEN n ELSE 1
                 /\ currentColor' = 1
            ELSE /\ cpc' = "thrown"
                 /\ colorsToUse' = 0
                 /\ currentColor' = 0
       ELSE /\ cpc' = "single"
            /\ colorsToUse' = 1
            /\ currentColor' = 1
    /\ UNCHANGED <<rvars, pvars, hvars, mvars, svars, gvars, lvars, fvars, wvars, qvars>>

\* one iteration of  for (const currentColor of colorsToUse) : the product is
\* created, pushed and followed by a wait, or the error is logged
createNewProduct_color(ok) ==
    /\ cpc = "loop"
    /\ LET pushed == IF ok THEN Append(createdProducts, currentColor)
                     ELSE createdProducts
           next == IF ok THEN currentColor + 1
                   ELSE AfterCatch(currentColor, colorsToUse)
       IN  /\ createdProducts' = pushed
           /\ timeline' =
                 IF ok /\ WaitsAfter(Len(pushed), colorsToUse)
                 THEN timeline \o <<Created(currentColor, TRUE),
                                    Waited(currentColor)>>
                 ELSE Append(timeline, Created(currentColor, ok))
           /\ IF next <= colorsToUse
              THEN /\ currentColor' = next
                   /\ cpc' = "loop"
              ELSE /\ currentColor' = currentColor
                   /\ cpc' = "returned"
    /\ UNCHANGED <<mode, colorsToUse>>
    /\ UNCHANGED <<rvars, pvars, hvars, mvars, svars, gvars, lvars, fvars, wvars, qvars>>

\* the else branch: return await createSingleProduct({...})
createNewProduct_single(ok) ==
    /\ cpc = "single"
    /\ timeline' = Append(timeline, Created(currentColor, ok))
    /\ createdProducts' = IF ok THEN <<currentColor>> ELSE << >>
    /\ cpc' = IF ok THEN "returned" ELSE "thrown"
    /\ UNCHANGED <<mode, colorsToUse, currentColor>>
    /\ UNCHANGED <<rvars, pvars, hvars, mvars, svars, gvars, lvars, fvars, wvars, qvars>>

(***************************************************************************)
(* Part 10: waitForMockupGeneration (part_008, mockup generator version)   *)
(*                                                                         *)
(* processFile calls it with the task key only, so maxAttempts and         *)
(* initialDelay have their default values.                                 *)
(***************************************************************************)
\* taskResult.status: the two values the loop tests for and two it does not;
\* "error" stands for checkMockupTaskStatus throwing
TaskStatuses == {"completed", "failed", "pending", "unknown", "error"}

WaitInit ==
    /\ wpc = "idle"
    /\ attempts = 0
    /\ delay = Rat(DefaultInitialDelay)
    /\ waited = << >>
    /\ statuses = << >>
    /\ wresult = "none"

\* a backoff without upper limit, which waitForMockupGeneration does not have
Uncapped(q) == q

\* Math.min(q, 30000)
CapDelay(q) == IF q.n > MaxDelay * q.d THEN Rat(MaxDelay) ELSE q

\* processFile's  await waitForMockupGeneration(taskKey)
waitForMockupGeneration_call ==
    /\ wpc \in {"idle", "returned", "thrown"}
    /\ wpc' = "waiting"
    /\ attempts' = 0
    /\ delay' = Rat(DefaultInitialDelay)
    /\ waited' = << >>
    /\ statuses' = << >>
    /\ wresult' = "none"
    /\ UNCHANGED <<rvars, pvars, hvars, mvars, svars, gvars, lvars, fvars, cvars, qvars>>

\* one iteration of  while (attempts < maxAttempts) : the wait, the check and
\* what follows from the status; leaving the loop throws the timeout
waitForMockupGeneration_check(status) ==
    /\ wpc = "waiting"
    /\ attempts < DefaultMaxAttempts
    /\ waited' = Append(waited, delay)
    /\ statuses' = Append(statuses, status)
    /\ IF status = "error"
       THEN /\ wpc' = "thrown"
            /\ wresult' = "checkError"
            /\ UNCHANGED <<attempts, delay>>
       ELSE IF status = "completed"
       THEN /\ wpc' = "returned"
            /\ wresult' = "taskResult"
            /\ UNCHANGED <<attempts, delay>>
       ELSE IF status = "failed"
       THEN /\ wpc' = "thrown"
            /\ wresult' = "failed"
            /\ UNCHANGED <<attempts, delay>>
       ELSE /\ delay' = CapDelay(IncreaseDelay(delay))
            /\ attempts' = attempts + 1
            /\ IF attempts + 1 < DefaultMaxAttempts
               THEN /\ wpc' = "waiting"
                    /\ wresult' = "none"
               ELSE /\ wpc' = "thrown"
                    /\ wresult' = "timeout"
    /\ UNCHANGED <<rvars, pvars, hvars, mvars, svars, gvars, lvars, fvars, cvars, qvars>>

(***************************************************************************)
(* Part 11: runPipeline (generate.js)                                      *)
(*                                                                         *)
(* How a stage call can end:                                               *)
(*   main (Illustrator)   resolves, rejects (an error in the 'end'         *)
(*                        handler), or the read stream of words.csv emits  *)
(*                        'error', which has no listener: the process dies *)
(*   runPhotoshopMockups  resolves to true or to false (it catches)        *)
(*   uploadToPrintful     main of uploadToPrintful.js: resolves, or its    *)
(*                        catch block calls process.exit(1)                *)
(***************************************************************************)
StageNames == {"illustrator", "mockups", "upload"}

IllustratorOutcomes == {"resolved", "rejected", "uncaught"}
MockupOutcomes == {"true", "false"}
UploadOutcomes == {"resolved", "exit1"}

NoPipelineSummary == [printed |-> FALSE, illustrator |-> "none",
                      mockups |-> "none", upload |-> "none", allOk |-> FALSE]

RunInit ==
    /\ rpc = "idle"
    /\ SKIP_MOCKUPS = FALSE
    /\ SKIP_UPLOAD = FALSE
    /\ dryRun = FALSE
    /\ illustratorSuccess = FALSE
    /\ mockupSuccess = FALSE
    /\ uploadSuccess = FALSE
    /\ stages = [st \in StageNames |-> "none"]
    /\ pipelineSummary = NoPipelineSummary
    /\ exitStatus = "none"

\* main's catch block of uploadToPrintful.js: console.error and
\* process.exit(1)
ExitsProcess(outcome) == outcome = "exit1"

\* the command line is read and runPipeline() is called
runPipeline_start(skipMockups, skipUpload, dry) ==
    /\ rpc = "idle"
    /\ SKIP_MOCKUPS' = skipMockups
    /\ SKIP_UPLOAD' = skipUpload
    /\ dryRun' = dry
    /\ rpc' = "illustrator"
    /\ UNCHANGED <<illustratorSuccess, mockupSuccess, uploadSuccess, stages,
                   pipelineSummary, exitStatus>>
    /\ UNCHANGED <<rvars, pvars, hvars, mvars, svars, gvars, lvars, fvars, cvars, wvars>>

\* step 1: await main() in a try block
runPipeline_illustrator(outcome) ==
    /\ rpc = "illustrator"
    /\ stages' = [stages EXCEPT !["illustrator"] = outcome]
    /\ illustratorSuccess' = (outcome = "resolved")
    /\ IF outcome = "uncaught"
       THEN /\ rpc' = "exited"
            /\ exitStatus' = 1
       ELSE /\ rpc' = "mockups"
            /\ UNCHANGED exitStatus
    /\ UNCHANGED <<SKIP_MOCKUPS, SKIP_UPLOAD, dryRun, mockupSuccess,
                   uploadSuccess, pipelineSummary>>
    /\ UNCHANGED <<rvars, pvars, hvars, mvars, svars, gvars, lvars, fvars, cvars, wvars>>

\* step 2: skipped, or mockupSuccess = await runPhotoshopMockups()
runPipeline_mockups(outcome) ==
    /\ rpc = "mockups"
    /\ (SKIP_MOCKUPS => outcome = "true")
    /\ stages' = IF SKIP_MOCKUPS THEN stages
                 ELSE [stages EXCEPT !["mockups"] = outcome]
    /\ mockupSuccess' = (SKIP_MOCKUPS \/ outcome = "true")
    /\ rpc' = "upload"
    /\ UNCHANGED <<SKIP_MOCKUPS, SKIP_UPLOAD, dryRun, illustratorSuccess,
                   uploadSuccess, pipelineSummary, exitStatus>>
    /\ UNCHANGED <<rvars, pvars, hvars, mvars, svars, gvars, lvars, fvars, cvars, wvars>>

\* step 3: skipped, or await uploadToPrintful(uploadOptions) in a try block
runPipeline_upload(outcome) ==
    /\ rpc = "upload"
    /\ (SKIP_UPLOAD => outcome = "resolved")
    /\ stages' = IF SKIP_UPLOAD THEN stages
                 ELSE [stages EXCEPT !["upload"] = outcome]
    /\ uploadSuccess' = (SKIP_UPLOAD \/ outcome = "resolved")
    /\ IF ~SKIP_UPLOAD /\ ExitsProcess(outcome)
       THEN /\ rpc' = "exited"
            /\ exitStatus' = 1
       ELSE /\ rpc' = "summary"
            /\ UNCHANGED exitStatus
    /\ UNCHANGED <<SKIP_MOCKUPS, SKIP_UPLOAD, dryRun, illustratorSuccess,
                   mockupSuccess, pipelineSummary>>
    /\ UNCHANGED <<rvars, pvars, hvars, mvars, svars, gvars, lvars, fvars, cvars, wvars>>

\* the final summary; runPipeline returns and the process ends
runPipeline_summary ==
    /\ rpc = "summary"
    /\ pipelineSummary' =
          [printed |-> TRUE,
           illustrator |-> IF illustratorSuccess THEN "Success" ELSE "Failed",
           mockups |-> IF SKIP_MOCKUPS THEN "Skipped"
                       ELSE IF mockupSuccess THEN "Success" ELSE "Failed",
           upload |-> IF SKIP_UPLOAD THEN "Skipped"
                      ELSE IF uploadSuccess THEN "Success" ELSE "Failed",
           allOk |-> /\ illustratorSuccess
                     /\ (SKIP_MOCKUPS \/ mockupSuccess)
                     /\ (SKIP_UPLOAD \/ uploadSuccess)]
    /\ rpc' = "exited"
    /\ exitStatus' = 0
    /\ UNCHANGED <<SKIP_MOCKUPS, SKIP_UPLOAD, dryRun, illustratorSuccess,
                   mockupSuccess, uploadSuccess, stages>>
    /\ UNCHANGED <<rvars, pvars, hvars, mvars, svars, gvars, lvars, fvars, cvars, wvars>>

(***************************************************************************)
(* The specifications                                                      *)
(***************************************************************************)
Init == RetryInit /\ PipeInit /\ HostInit /\ ParseInit /\ StoreInit
        /\ GenerateInit /\ LogInit /\ FrameInit
        /\ ColorInit /\ WaitInit /\ RunInit

\* Part 1: any caller may invoke any wrapper with any arguments, and the
\* remote side may answer each request in any way
Next ==
    \/ \E f \in RetryFns, m \in 1..MaxRetriesBound, d \in RetryDelays,
          valid \in BOOLEAN, fl \in FileStates : Call(f, m, d, valid, fl)
    \/ \E resp \in Responses : Attempt(resp)
    \/ \E f \in OneShotFns, fl \in FileStates, resp \in Responses :
          Invoke(f, fl, resp)

Spec == Init /\ [][Next]_vars

\* Part 2: one run of one of the scripts, every stage call free to fail
PipelineNext ==
    \/ \E dry, fetchOk \in BOOLEAN, n \in 0..MaxUnits, config \in Configs :
          main8_start(dry, n, config, fetchOk)
    \/ \E ok \in BOOLEAN : processFile8_generateListing(ok)
    \/ \E ok \in BOOLEAN : processFile8_upload(ok)
    \/ \E ok \in BOOLEAN : processFile8_sync(ok)
    \/ main8_summary
    \/ \E dry, tonly, sonly, fetchOk \in BOOLEAN, n \in 0..MaxUnits,
          config \in Configs :
          main7_start(dry, tonly, sonly, n, config, fetchOk)
    \/ \E ok \in BOOLEAN : processFile7_generateListing(ok)
    \/ \E ok \in BOOLEAN : processFile7_upload(ok)
    \/ \E ok \in BOOLEAN : processFile7_template(ok)
    \/ \E ok \in BOOLEAN : processFile7_sync(ok)
    \/ main7_summary
    \/ \E dry, tonly, fetchOk \in BOOLEAN, n \in 0..MaxUnits,
          config \in Configs :
          main13_start(dry, tonly, n, config, fetchOk)
    \/ \E ok \in BOOLEAN : processFile13_generateListing(ok)
    \/ \E ok \in BOOLEAN : processFile13_upload(ok)
    \/ \E ok \in BOOLEAN : processFile13_template(ok)
    \/ \E ok, saveOk \in BOOLEAN : processFile13_sync(ok, saveOk)
    \/ main13_summary
    \/ \E dry, exists \in BOOLEAN : automateProductCreationT_start(dry, exists)
    \/ \E ok \in BOOLEAN : automateProductCreationT_createProductFromTemplate(ok)
    \/ \E ok \in BOOLEAN : automateProductCreationT_generateProductText(ok)
    \/ \E ok \in BOOLEAN : automateProductCreationT_uploadMockupToDropbox(ok)
    \/ \E ok, saveOk \in BOOLEAN :
          automateProductCreationT_updateProductWithAssets(ok, saveOk)
    \/ \E dry, exists \in BOOLEAN : automateProductCreationD_start(dry, exists)
    \/ \E ok \in BOOLEAN : automateProductCreationD_generateProductText(ok)
    \/ \E ok \in BOOLEAN : automateProductCreationD_uploadMockupToDropbox(ok)
    \/ \E ok, saveOk \in BOOLEAN :
          automateProductCreationD_createNewProduct(ok, saveOk)

PipelineSpec == Init /\ [][PipelineNext]_vars

\* Part 3: any of the three uploaders is called for any of the files
HostNext ==
    \/ \E f \in FileNames : fromTemplate_uploadMockupToDropbox(f)
    \/ \E f \in FileNames : direct_uploadMockupToDropbox(f)
    \/ \E f \in FileNames : dropbox_uploadFileToPrintful(f)

HostSpec == Init /\ [][HostNext]_vars

\* Part 4: either version parses any completion
ParseNext ==
    \/ \E msg \in Messages : generateListing11_parse(msg)
    \/ \E msg \in Messages : generateListingOR_parse(msg)

ParseSpec == Init /\ [][ParseNext]_vars

\* Part 5: a product is created with any environment, store type and price,
\* and the store may refuse or accept each request
StoreNext ==
    \/ \E penv \in Environments, st \in StoreTypes, p \in PriceValues :
          createNewProduct_call(penv, st, p)
    \/ \E penv \in Environments, etsy \in BOOLEAN,
          arg \in PriceTexts \cup {"absent"} :
          automatePrintfulProduct_cli(penv, etsy, arg)
    \/ \E ok \in BOOLEAN : createSingleProduct_attempt(ok)
    \/ \E penv \in Environments, fetchOk \in BOOLEAN :
          main_credentials(penv, fetchOk)
    \/ printfulApi_request

StoreSpec == Init /\ [][StoreNext]_vars

\* Part 6: one run of generate.js over any number of rows, every export free
\* to fail, the exports ending in any order
GenerateNext ==
    \/ \E n \in 0..MaxRows : generate_main(n)
    \/ \E i \in Rows, ok \in BOOLEAN : generate_task(i, ok)
    \/ generate_summary

GenerateSpec == Init /\ [][GenerateNext]_vars

\* Part 7: runs of the scripts, one after the other, on any design
LogNext ==
    \/ \E d \in Designs, ok \in BOOLEAN : fromTemplate_saveProductInfo(d, ok)
    \/ \E d \in Designs, dry, ok \in BOOLEAN :
          direct_saveProductInfo(d, dry, ok)
    \/ \E d \in Designs, ok \in BOOLEAN : processFile13_saveListing(d, ok)
    \/ \E d \in Designs, templateOk, syncOk \in BOOLEAN :
          processFile7_saveMetadata(d, templateOk, syncOk)

LogSpec == Init /\ [][LogNext]_vars

\* Part 8: two activations, entered and resumed in any order
FrameNext ==
    \/ \E a \in Activations, m \in 1..MaxRetriesBound, d \in RetryDelays :
          createSingleProduct_enter(a, m, d)
    \/ \E a \in Activations, ok \in BOOLEAN :
          createSingleProduct_iteration(a, ok)

FrameSpec == Init /\ [][FrameNext]_vars

\* Part 9: createNewProduct is called with any options, for a product with
\* any number of colors, every createSingleProduct free to fail
ColorNext ==
    \/ \E opts \in Modes, n \in 1..MaxColors, fetchOk \in BOOLEAN :
          createNewProduct_start(opts, n, fetchOk)
    \/ \E ok \in BOOLEAN : createNewProduct_color(ok)
    \/ \E ok \in BOOLEAN : createNewProduct_single(ok)

ColorSpec == Init /\ [][ColorNext]_vars

\* Part 10: the task answers every check with any status
WaitNext ==
    \/ waitForMockupGeneration_call
    \/ \E status \in TaskStatuses : waitForMockupGeneration_check(status)

WaitSpec == Init /\ [][WaitNext]_vars

\* Part 11: one run of generate.js with any options, every stage free to
\* end in any of its ways
RunNext ==
    \/ \E skipMockups, skipUpload, dry \in BOOLEAN :
          runPipeline_start(skipMockups, skipUpload, dry)
    \/ \E outcome \in IllustratorOutcomes : runPipeline_illustrator(outcome)
    \/ \E outcome \in MockupOutcomes : runPipeline_mockups(outcome)
    \/ \E outcome \in UploadOutcomes : runPipeline_upload(outcome)
    \/ runPipeline_summary

RunSpec == Init /\ [][RunNext]_vars

(***************************************************************************)
(* Properties of the retry loops (specification Spec)                      *)
(***************************************************************************)
\* outcomes of a try-body that make the wrapper return
SuccessKinds == {"result", "undefined", "fallbackUrl", "incompleteContent"}

\* failures that are not transport failures: the content or the input is
\* wrong and would be wrong again on the next attempt
PermanentKinds == {"malformed", "file_missing", "invalid_input", "oversize"}

\* failures after which the wrapper fn goes on to another attempt while it
\* has attempts left
Retried(f, kind) ==
    f = "uploadFileToPrintfulDirect" => kind \in {"http5xx", "http429"}

\* C1 as stated: a call that ends by throwing has executed the operation
\* exactly maxRetries times, whatever the failures were
C1_ExactlyMaxAttemptsAlways ==
    rstate = "thrown" => Len(tries) = maxRetries

\* C1: a call whose every attempt fails with a failure the wrapper retries
\* (any failure in the unconditional wrappers, a 5xx or 429 answer in the
\* direct uploader) executes the operation exactly maxRetries times before it
\* throws, and no call executes it more than maxRetries times
C1_ExactlyMaxAttempts ==
    /\ Len(tries) <= maxRetries
    /\ (rstate = "thrown" /\ \A i \in 1..Len(tries) : Retried(fn, tries[i]))
          => Len(tries) = maxRetries
    /\ (rstate = "running" /\ tries # << >>) => Len(tries) < maxRetries

\* a default call of createSingleProduct has failed three times and thrown
C1_Witness ==
    /\ fn = "createSingleProduct"
    /\ rstate = "thrown"
    /\ maxRetries = DefaultMaxRetries
    /\ Len(tries) = DefaultMaxRetries
    /\ requests = DefaultMaxRetries

\* C2: the i-th sleep of a call lasts initialDelay x 1.5^(i-1) ms, so the
\* first lasts initialDelay and each later one 1.5 times the one before; the
\* i-th sleep follows the i-th failed attempt
C2_BackoffGrowth ==
    /\ Len(sleeps) <= Len(tries)
    /\ \A i \in 1..Len(sleeps) :
          /\ RatEq(sleeps[i], [n |-> initialDelay * Pow(3, i - 1),
                               d |-> Pow(2, i - 1)])
          /\ tries[i] \notin SuccessKinds
          /\ i > 1 => RatEq(sleeps[i], IncreaseDelay(sleeps[i - 1]))
    /\ RatEq(retryDelay, [n |-> initialDelay * Pow(3, Len(sleeps)),
                          d |-> Pow(2, Len(sleeps))])

\* a default call has slept 2000 ms and then 3000 ms
C2_Witness ==
    /\ initialDelay = DefaultRetryDelay
    /\ Len(sleeps) = 2
    /\ RatEq(sleeps[1], Rat(2000))
    /\ RatEq(sleeps[2], Rat(3000))

C4_ReturnsAtFirstSuccess ==
    \A i \in 1..Len(tries) :
        tries[i] \in SuccessKinds =>
            /\ i = Len(tries)
            /\ rstate = "returned"
            /\ attempt = i
            /\ Len(sleeps) = i - 1
            /\ thrown = NoError

\* a call succeeded at its second attempt out of three
C4_Witness ==
    /\ rstate = "returned"
    /\ maxRetries = 3
    /\ tries = <<"http5xx", "result">>
    /\ Len(sleeps) = 1
    /\ requests = 2

\* C5 as stated: an attempt that fails with a permanent error is the only
\* attempt of its call: the call throws at once, without any sleep
C5_PermanentNotRetried ==
    \A i \in 1..Len(tries) :
        tries[i] \in PermanentKinds =>
            /\ i = 1
            /\ Len(tries) = 1
            /\ rstate = "thrown"
            /\ sleeps = << >>

\* generateProductText got three answers that lack a field and slept twice
C5_Witness ==
    /\ fn = "generateProductText"
    /\ rstate = "thrown"
    /\ tries = <<"malformed", "malformed", "malformed">>
    /\ Len(sleeps) = 2

(***************************************************************************)
(* Properties of the pipeline drivers (specification PipelineSpec)         *)
(***************************************************************************)
ContentCalls == {"generateListing", "generateProductText"}
UploadCalls == {"uploadFileToPrintful", "uploadMockupToDropbox"}

\* the driver is done with unit u
Finished(u) == u < cur \/ (u = cur /\ pc \in {"summary", "exited"})

\* content generation, upload and sync of unit u all succeeded
AllStagesOk(u) ==
    unit[u].content = "ok" /\ unit[u].upload = "ok" /\ unit[u].sync = "ok"

\* unit u has an entry in main's results array
InResults(u) == \E i \in 1..Len(results) : results[i][1] = u

\* unit u is counted in one of the success counts the summary prints
CountedAsSuccess(u) ==
    \E i \in 1..Len(results) :
        /\ results[i][1] = u
        /\ \/ script = "dropbox"
           \/ results[i][2] \in WithTemplate
           \/ ~TEMPLATE_ONLY /\ results[i][2] \in WithProduct

\* C6 as stated: a run that got as far as its loop ends with every enumerated
\* unit processed and the summary printed, whatever failed for a unit
C6_UnitFailureNeverAborts ==
    (pc = "exited" /\ script \in BatchScripts /\ files > 0) =>
        /\ summary.printed
        /\ exitCode = 0
        /\ \A u \in 1..files : unit[u].result \notin {"pending", "thrown"}

\* the token-manager run ended with status 1 at the first of two units,
\* whose content generation failed; the second unit was never started
C6_Witness ==
    /\ script = "tokenManager"
    /\ pc = "exited"
    /\ exitCode = 1
    /\ files = 2
    /\ unit[1].content = "failed"
    /\ unit[2].result = "pending"
    /\ ~summary.printed

\* C7 as stated: every product create or update call made for a unit comes
\* after a successful content call and, after that, a successful upload call
\* for that unit
C7_ContentUploadThenSync ==
    \A u \in Units : \A i \in 1..Len(trace[u]) :
        trace[u][i].op \in ProductCalls =>
            \E j \in 1..(i - 1) : \E k \in (j + 1)..(i - 1) :
                /\ trace[u][j].op \in ContentCalls /\ trace[u][j].ok
                /\ trace[u][k].op \in UploadCalls /\ trace[u][k].ok

\* the Cloudinary run called createProductWithEtsySync for a unit whose
\* upload had failed
C7_Witness ==
    /\ script = "cloudinary"
    /\ \E u \in Units : \E i \in 1..Len(trace[u]) :
          /\ trace[u][i].op = "createProductWithEtsySync"
          /\ \E k \in 1..(i - 1) :
                trace[u][k].op = "uploadFileToPrintful" /\ ~trace[u][k].ok

\* C8 as stated: in the summary of a real run a unit whose sync failed is in
\* none of the success counts, and a unit whose stages all succeeded is in one
C8_SyncFailureReportedFailed ==
    (summary.printed /\ script \in BatchScripts /\ ~DRY_RUN) =>
        \A u \in 1..files :
            /\ unit[u].sync = "failed" => ~CountedAsSuccess(u)
            /\ AllStagesOk(u) => CountedAsSuccess(u)

\* the Cloudinary run over three units, the second with a failed sync, printed
\* one created template (the second unit), two failures and two synced products
C8_Witness ==
    /\ script = "cloudinary"
    /\ files = 3
    /\ AllStagesOk(1) /\ AllStagesOk(3)
    /\ unit[2].sync = "failed"
    /\ summary = [printed |-> TRUE, total |-> 3, succeeded |-> 1,
                  failed |-> 2, syncShown |-> TRUE, synced |-> 2]

\* C9 as stated: a unit whose upload failed has no file URL, and neither the
\* template nor the sync step runs for it
C9_NoUrlForFailedUpload ==
    \A u \in Units :
        unit[u].upload = "failed" =>
            /\ unit[u].fileUrl = "none"
            /\ unit[u].template = "none"
            /\ unit[u].sync = "none"

\* the Dropbox run synced a product with the URL made up after a failed upload
C9_Witness ==
    /\ script = "dropbox"
    /\ \E u \in Units :
          /\ unit[u].upload = "failed"
          /\ unit[u].fileUrl = "fallback"
          /\ unit[u].sync = "ok"
          /\ unit[u].result = "product"

\* results that tell which stage failed; no driver produces one
FailedAtStage == {"failed:content", "failed:upload", "failed:sync"}

C11_DryRunNoNetwork ==
    DRY_RUN => \A u \in Units : \A i \in 1..Len(trace[u]) : ~trace[u][i].net

\* the Dropbox dry run over two files ended after calling generateListing,
\* which posts to the completion endpoint, once for each file
C11_Witness ==
    /\ script = "dropbox"
    /\ DRY_RUN
    /\ pc = "exited"
    /\ files = 2
    /\ \A u \in 1..2 :
          /\ trace[u] = <<Event("generateListing", TRUE, TRUE)>>
          /\ unit[u].result = "dryRun"

\* C12 as stated: a dry run that ends with status 0 has printed a summary in
\* which every enumerated unit is a success and none a failure
C12_DryRunCompleteSummary ==
    (DRY_RUN /\ script \in BatchScripts /\ pc = "exited" /\ exitCode = 0) =>
        /\ summary.printed
        /\ summary.total = files
        /\ summary.succeeded = files
        /\ summary.failed = 0
        /\ \A u \in 1..files : unit[u].result = "dryRun"

\* the Cloudinary dry run ended with status 0 without enumerating a file or
\* printing a summary
C12_Witness ==
    /\ script = "cloudinary"
    /\ DRY_RUN
    /\ pc = "exited"
    /\ exitCode = 0
    /\ files = 0
    /\ ~summary.printed

\* unit u is in the number the summary prints as failed
CountedAsFailed(u) ==
    IF script = "dropbox" THEN ~InResults(u)
    ELSE ~\E i \in 1..Len(results) :
            results[i][1] = u /\ results[i][2] \in WithTemplate

\* C13 as stated: a real run that ends with status 0 has printed a summary
\* over all enumerated units in which succeeded + failed = processed and
\* every unit is counted either as succeeded or as failed, not both
C13_EachUnitCountedOnce ==
    (~DRY_RUN /\ script \in BatchScripts /\ pc = "exited" /\ exitCode = 0) =>
        /\ summary.printed
        /\ summary.total = files
        /\ summary.succeeded + summary.failed = summary.total
        /\ \A u \in 1..files : CountedAsSuccess(u) # CountedAsFailed(u)

\* the Cloudinary run over one file whose stages all succeeded printed no
\* created template, one failure and one synced product
C13_Witness ==
    /\ script = "cloudinary"
    /\ files = 1
    /\ AllStagesOk(1)
    /\ unit[1].result = "product"
    /\ summary = [printed |-> TRUE, total |-> 1, succeeded |-> 0,
                  failed |-> 1, syncShown |-> TRUE, synced |-> 1]

\* C14 as stated: a run that got past the configuration checks and entered
\* its loop ends with status 0, whatever failed for a unit
C14_UnitFailureExitsZero ==
    (pc = "exited" /\ script \in BatchScripts /\ files > 0) => exitCode = 0

\* the token-manager run over one file, with nothing missing from the
\* environment, ended with status 1 because generateListing failed
C14_Witness ==
    /\ script = "tokenManager"
    /\ env = "ok"
    /\ files = 1
    /\ unit[1].content = "failed"
    /\ unit[1].result = "thrown"
    /\ pc = "exited"
    /\ exitCode = 1

\* the run needs the setting that is missing: the Printful settings in a real
\* run (the API key in every token-manager run), the completion-endpoint key
\* whenever files are processed
RequiredMissing ==
    \/ env \in CheckedByMain
          /\ (~DRY_RUN \/ (script = "tokenManager" /\ env = "noApiKey"))
    \/ env = "noOpenRouterKey" /\ ~(script = "cloudinary" /\ DRY_RUN)

\* C15 as stated: a run that lacks a setting it needs makes no stage call for
\* any unit and does not end with status 0
C15_MissingConfigAborts ==
    (script \in BatchScripts /\ RequiredMissing) =>
        /\ ~(pc = "exited" /\ exitCode = 0)
        /\ \A u \in Units : trace[u] = << >>

\* the Dropbox run without OPENROUTER_API_KEY went through both files, each
\* failing in generateListing, and ended with status 0
C15_Witness ==
    /\ script = "dropbox"
    /\ ~DRY_RUN
    /\ env = "noOpenRouterKey"
    /\ files = 2
    /\ \A u \in 1..2 : unit[u].content = "failed" /\ unit[u].result = "null"
    /\ summary.printed /\ summary.failed = 2
    /\ exitCode = 0


(***************************************************************************)
(* Retry coverage of the network operations (specification Spec)           *)
(***************************************************************************)
\* failures that a later attempt may not meet again
TransientKinds == {"http5xx", "http429", "timeout"}

\* C16 as stated: every operation that issues a network request runs inside
\* a retry loop, so a call that sent a request is a call of a retry wrapper
C16_EveryNetworkCallUnderRetry ==
    requests > 0 => fn \in RetryFns

\* generateListing got one 5xx answer and threw it at once, without a sleep
C16_Witness ==
    /\ fn = "generateListing"
    /\ rstate = "thrown"
    /\ tries = <<"http5xx">>
    /\ requests = 1
    /\ sleeps = << >>
    /\ thrown = [kind |-> "http5xx", at |-> 1, class |-> "Error"]


\* errors of the local file, which no later attempt can cure
FileErrorKinds == {"oversize", "file_missing"}

\* C17 as stated: in an uploader, a 5xx answer, a timeout or a 429 answer
\* ends the call only when a retry loop has used all its attempts, and an
\* error of the local file (size limit, path) is the only attempt of its call
C17_UploaderRetryPolicy ==
    fn \in FileFns =>
        /\ (rstate = "thrown" /\ tries[Len(tries)] \in TransientKinds) =>
              (fn \in RetryFns /\ Len(tries) = maxRetries)
        /\ \A i \in 1..Len(tries) :
              tries[i] \in FileErrorKinds =>
                  (Len(tries) = 1 /\ rstate = "thrown" /\ sleeps = << >>)

\* the direct uploader, called with three attempts, retried a 5xx answer
\* and then threw the timeout of its second attempt
C17_Witness ==
    /\ fn = "uploadFileToPrintfulDirect"
    /\ maxRetries = 3
    /\ rstate = "thrown"
    /\ tries = <<"http5xx", "timeout">>
    /\ Len(sleeps) = 1
    /\ thrown.kind = "timeout"


\* C19 as stated: an upload of a file over the size limit is rejected in a
\* single attempt, before any request is sent and without any sleep
C19_OversizeRejectedAtOnce ==
    (fn \in FileFns /\ file = "oversize" /\ tries # << >>) =>
        /\ Len(tries) = 1
        /\ rstate = "thrown"
        /\ thrown.kind = "oversize"
        /\ requests = 0
        /\ sleeps = << >>

\* the Dropbox-backed uploader sent an oversized file and returned its URL
C19_Witness ==
    /\ fn = "uploadFileToPrintful"
    /\ file = "oversize"
    /\ rstate = "returned"
    /\ tries = <<"result">>
    /\ requests = 1


\* C20 as stated: a content generator returns only content whose title,
\* description and tags are all there, and an answer that lacks one of them
\* makes the call fail with a MalformedContentError
C20_ContentValidated ==
    fn \in ContentCalls =>
        /\ rstate = "returned" => tries[Len(tries)] = "result"
        /\ \A i \in 1..Len(tries) : tries[i] # "incompleteContent"
        /\ (rstate = "thrown" /\ thrown.kind = "malformed") =>
              thrown.class = "MalformedContentError"

\* generateListing got an answer without tags and returned what it extracted
C20_Witness ==
    /\ fn = "generateListing"
    /\ rstate = "returned"
    /\ tries = <<"incompleteContent">>
    /\ requests = 1
    /\ thrown = NoError


\* C28: the entries of main's results array are in the order in which the
\* files were enumerated, each file at most once, and only files that the
\* loop has reached have an entry
C28_ResultsInEnumerationOrder ==
    /\ \A i, j \in 1..Len(results) :
          i < j => results[i][1] < results[j][1]
    /\ \A i \in 1..Len(results) : results[i][1] \in 1..cur

\* of three files the second failed: the results hold the first file, then
\* the third
C28_Witness ==
    /\ script \in BatchScripts
    /\ files = 3
    /\ pc = "exited"
    /\ Len(results) = 2
    /\ results[1][1] = 1
    /\ results[2][1] = 3
    /\ unit[2].result = "null"

\* C36 as stated: a unit that ended in failure has no product on the
\* commerce API, neither a placeholder nor a synced one
C36_NoProductAfterFailure ==
    \A u \in Units :
        unit[u].result \in {"thrown", "null", "error"} =>
            /\ unit[u].placeholder # "ok"
            /\ unit[u].sync # "ok"

\* the template script created the placeholder product, generateProductText
\* then threw and the run ended with status 1
C36_Witness ==
    /\ script = "fromTemplate"
    /\ pc = "exited"
    /\ exitCode = 1
    /\ unit[1].placeholder = "ok"
    /\ unit[1].content = "failed"
    /\ unit[1].result = "thrown"
    /\ trace[1] = <<Event("createProductFromTemplate", TRUE, TRUE),
                    Event("generateProductText", FALSE, TRUE)>>

(***************************************************************************)
(* Properties of the sleeps of the retry loops (specification Spec)        *)
(***************************************************************************)
\* C37: a call sleeps once after every failed attempt that another attempt
\* follows and at no other time: not after the attempt it returns from or
\* throws after, and at most maxRetries - 1 times
C37_SleepsOnlyBetweenAttempts ==
    /\ rstate = "running" => Len(sleeps) = Len(tries)
    /\ rstate \in {"returned", "thrown"} => Len(sleeps) = Len(tries) - 1
    /\ Len(sleeps) <= maxRetries - 1
    /\ \A i \in 1..Len(sleeps) : tries[i] \notin SuccessKinds

\* the direct uploader, allowed three attempts, slept after a 429 answer and
\* returned from its second attempt
C37_Witness ==
    /\ fn = "uploadFileToPrintfulDirect"
    /\ rstate = "returned"
    /\ maxRetries = 3
    /\ tries = <<"http429", "result">>
    /\ Len(sleeps) = 1

(***************************************************************************)
(* Properties of the uploads to Dropbox (specification HostSpec)           *)
(***************************************************************************)
\* C18 as stated: an upload of a file whose name already has a shared link
\* on the host, which the host answers with shared_link_already_exists,
\* succeeds and returns a URL
C18_ReuploadSucceeds ==
    last.conflict => (last.ok /\ last.url # NoUrl)

\* with an SDK that wraps its answers, the second upload of apple.png by
\* part_008's uploader met the conflict and threw after three attempts,
\* leaving the first link in place
C18_Witness ==
    /\ sdk = "wrapped"
    /\ last.by = "dropbox"
    /\ last.file = "apple.png"
    /\ last.conflict
    /\ ~last.ok
    /\ last.attempts = DefaultMaxRetries
    /\ hostLinks["apple.png"] = 1
    /\ "apple.png" \in hostFiles


\* C35 as stated: an upload of a file that already has a shared link leaves
\* that link in place, and when it follows a successful upload of the same
\* file it returns the same URL
C35_ReuploadKeepsLink ==
    [][\A f \in FileNames :
          (last'.file = f /\ hostLinks[f] > 0) =>
              /\ hostLinks'[f] = hostLinks[f]
              /\ (last.file = f /\ last.ok /\ last'.ok) => last'.url = last.url
      ]_vars

\* part_008's uploader met the conflict on apple.png, revoked the link and
\* returned the URL of a second one
C35_Witness ==
    /\ sdk = "flat"
    /\ last.by = "dropbox"
    /\ last.file = "apple.png"
    /\ last.conflict
    /\ last.ok
    /\ hostLinks["apple.png"] = 2
    /\ last.url = LinkUrl(2)

(***************************************************************************)
(* Properties of the parsing (specification ParseSpec)                     *)
(***************************************************************************)
\* C21 as stated: the extraction by regular expressions runs only after the
\* strict parse failed, a parsing fails only after both the strict parse
\* and the extraction found nothing, and it does fail then
C21_TwoTierParsing ==
    parser # "none" =>
        /\ parsed.by = "extraction" => ~message.whole
        /\ ~parsed.ok => (~message.whole /\ message.fields = {})
        /\ (~message.whole /\ ~message.braces /\ message.fields = {}) =>
              ~parsed.ok

\* generateListingFromOpenRouter.js threw the SyntaxError of JSON.parse for
\* a completion in which all four fields could have been extracted
C21_Witness ==
    /\ parser = "openRouter"
    /\ ~message.whole
    /\ message.fields = ListingFields
    /\ parsed = [ok |-> FALSE, by |-> "none", filled |-> {},
                 error |-> "SyntaxError"]


(***************************************************************************)
(* Properties of product creation (specification Spec)                     *)
(***************************************************************************)
\* C22 as stated: a call of createSingleProduct with a missing or invalid
\* argument throws at its first attempt, having sent no request and slept
\* not at all
C22_InvalidInputFailsAtOnce ==
    (fn \in ValidatingFns /\ ~inputValid /\ tries # << >>) =>
        /\ Len(tries) = 1
        /\ rstate = "thrown"
        /\ requests = 0
        /\ sleeps = << >>

\* a default call of createSingleProduct without a title has validated its
\* arguments three times, slept twice and sent nothing
C22_Witness ==
    /\ fn = "createSingleProduct"
    /\ ~inputValid
    /\ rstate = "thrown"
    /\ tries = <<"invalid_input", "invalid_input", "invalid_input">>
    /\ Len(sleeps) = 2
    /\ requests = 0


\* the operations that create or update a product in the store
ProductFns == {"createSingleProduct", "createProductFromTemplate",
               "updateProductWithAssets", "createProductWithEtsySync"}

\* C24 as stated: a request to create or update a product that the store
\* refuses with a 4xx answer (a business rule, such as an unsupported store
\* type) is the last attempt of its call: the call throws without a sleep
C24_RejectionNotRetried ==
    fn \in ProductFns =>
        \A i \in 1..Len(tries) :
            tries[i] = "http4xx" =>
                /\ i = Len(tries)
                /\ rstate = "thrown"
                /\ Len(sleeps) = i - 1

\* the store refused the product of createSingleProduct three times in a
\* row, and the call slept twice before it threw
C24_Witness ==
    /\ fn = "createSingleProduct"
    /\ inputValid
    /\ rstate = "thrown"
    /\ tries = <<"http4xx", "http4xx", "http4xx">>
    /\ requests = 3
    /\ Len(sleeps) = 2

(***************************************************************************)
(* Properties of credentials and prices (specification StoreSpec)          *)
(***************************************************************************)
\* C23 as stated: every request that creates a product carries a price that
\* is a number above zero, and a call with any other price sends none
C23_OnlyPositivePrices ==
    /\ \A i \in 1..Len(sent) : PricePositive(sent[i].price)
    /\ (run # "idle" /\ ~PricePositive(price)) => sent = << >>

\* automatePrintfulProduct.js --price=-5 created a product at the price -5
C23_Witness ==
    /\ run = "returned"
    /\ price = JsNumber(0 - 500)
    /\ sent = <<[apiKey |-> "PRINTFUL_API_KEY", price |-> JsNumber(0 - 500)]>>


\* C25 as stated: the credentials resolved for a call never hold an
\* undefined API key, so that no request is sent with one
C25_NoUndefinedApiKey ==
    /\ \A i \in 1..Len(used) : used[i].apiKey # "undefined"
    /\ \A i \in 1..Len(sent) : sent[i].apiKey # "undefined"

\* with PRINTFUL_ETSY_API_KEY unset, a call for the Etsy store resolved
\* credentials without API key and sent its request with them
C25_Witness ==
    /\ storeType = "etsy"
    /\ processEnv["PRINTFUL_ETSY_API_KEY"] = "undefined"
    /\ run = "returned"
    /\ used = <<[apiKey  |-> "undefined",
                 storeId |-> processEnv["PRINTFUL_ETSY_STORE_ID"],
                 name    |-> "Etsy-linked store"]>>
    /\ Len(sent) = 1
    /\ sent[1].apiKey = "undefined"

\* the store whose credentials these are
StoreOf(creds) ==
    IF creds.name = "Etsy-linked store" THEN "etsy" ELSE "manual"

\* C26 as stated: the credentials resolved for a call are those of the
\* store type the call asked for
C26_NoFallbackStore ==
    \A i \in 1..Len(used) : StoreOf(used[i]) = storeType

\* a call for the store type shopify was given the credentials of the
\* Manual/API store and created its product there
C26_Witness ==
    /\ storeType = "shopify"
    /\ run = "returned"
    /\ Len(used) = 1
    /\ used[1].name = "Manual/API store"
    /\ sent = <<[apiKey |-> "PRINTFUL_API_KEY", price |-> price]>>


C29_OneUnitAtATime ==
    /\ Cardinality({i \in Rows : tasks[i] = "pending"}) <= 1
    /\ \A i, j \in Rows :
          (i < j /\ tasks[j] # "none") =>
              tasks[i] \in {"fulfilled", "rejected"}

\* generate.js has started the exports of three rows, and none has ended
C29_Witness ==
    /\ rows = 3
    /\ gpc = "waiting"
    /\ \A i \in 1..3 : tasks[i] = "pending"


(***************************************************************************)
(* Properties of the record files (specification LogSpec)                  *)
(***************************************************************************)
\* C30 as stated: a run writes a record exactly when its sync succeeded,
\* under a name made of the design name and a timestamp, and no record is
\* written over: every record ever written is on disk as it was written
C30_RecordsNeverOverwritten ==
    /\ lastRun.wrote = lastRun.synced
    /\ \A i \in 1..Len(written) : written[i].name.stamp > 0
    /\ \A i, j \in 1..Len(written) :
          i # j => written[i].name # written[j].name
    /\ \A i \in 1..Len(written) : written[i] \in logFiles

\* part_007 ran twice on apple: the second run wrote manual-templates/
\* apple.json over the record of the first
C30_Witness ==
    /\ lastRun.script = "cloudinary"
    /\ written = <<[name |-> PlainName("apple"), by |-> 1],
                   [name |-> PlainName("apple"), by |-> 2]>>
    /\ logFiles = {[name |-> PlainName("apple"), by |-> 2]}


(***************************************************************************)
(* Properties of concurrent activations (specification FrameSpec)          *)
(***************************************************************************)
\* C31: the retry loop is reentrant: whatever the other activation does,
\* an activation's attempt number is one more than the number of its own
\* failures, and its k-th sleep is its own initial delay x 1.5^(k-1)
C31_Reentrant ==
    \A a \in Activations :
        frames[a].state # "idle" =>
          /\ frames[a].attempt =
                IF frames[a].state = "returned" THEN frames[a].failures + 1
                ELSE IF frames[a].state = "thrown" THEN frames[a].maxRetries + 1
                ELSE frames[a].failures + 1
          /\ frames[a].failures <= frames[a].maxRetries
          /\ \A k \in 1..Len(frames[a].sleeps) :
                RatEq(frames[a].sleeps[k],
                      [n |-> frames[a].initialDelay * Pow(3, k - 1),
                       d |-> Pow(2, k - 1)])
          /\ Len(frames[a].sleeps) =
                IF frames[a].failures < frames[a].maxRetries
                THEN frames[a].failures ELSE frames[a].maxRetries - 1

\* activation 1 has failed twice and slept twice while activation 2, with
\* another initial delay, is at its second attempt after one failure
C31_Witness ==
    /\ frames[1].state = "running"
    /\ frames[1].failures = 2
    /\ frames[1].initialDelay = DefaultRetryDelay
    /\ frames[2].state = "running"
    /\ frames[2].attempt = 2
    /\ frames[2].initialDelay = 1
    /\ frames[2].sleeps = <<Rat(1)>>


C33_DelayBetweenColors ==
    \A i \in 1..(Len(timeline) - 1) :
        ~(timeline[i].op = "createSingleProduct"
          /\ timeline[i + 1].op = "createSingleProduct")

\* of two colors the first failed and the second was created right after it
C33_Witness ==
    /\ cpc = "returned"
    /\ colorsToUse = 2
    /\ timeline = <<Created(1, FALSE), Created(2, TRUE), Waited(2)>>


\* the timeline's calls of createSingleProduct, in order
IsCreate(e) == e.op = "createSingleProduct"
CreateCalls == SelectSeq(timeline, IsCreate)

\* the calls that returned a product
IsCreated(e) == e.op = "createSingleProduct" /\ e.ok
Succeeded == SelectSeq(timeline, IsCreated)

\* C34: a multi-color call that returned has called createSingleProduct once
\* for every color, in order, whatever failed, and returns the products of
\* exactly the colors that succeeded, in color order
C34_EveryColorOnce ==
    (cpc = "returned" /\ (mode.allColors \/ mode.allVariants)) =>
        /\ Len(CreateCalls) = colorsToUse
        /\ \A i \in 1..Len(CreateCalls) : CreateCalls[i].color = i
        /\ Len(createdProducts) = Len(Succeeded)
        /\ \A i \in 1..Len(Succeeded) : createdProducts[i] = Succeeded[i].color
        /\ Len(createdProducts) <= colorsToUse

\* of three colors the second failed: the call returned the first and the
\* third
C34_Witness ==
    /\ cpc = "returned"
    /\ mode.allColors
    /\ colorsToUse = 3
    /\ createdProducts = <<1, 3>>
    /\ Len(CreateCalls) = 3


(***************************************************************************)
(* Properties of waitForMockupGeneration (specification WaitSpec)          *)
(***************************************************************************)
\* a status that neither ends the wait nor is an error of the check
Neither(st) == st \notin {"completed", "failed", "error"}

\* C38: the wait makes at most maxAttempts checks; it returns at the first
\* 'completed', throws at the first 'failed', throws the timeout after
\* maxAttempts checks that are neither; the first delay is initialDelay,
\* each later one min(1.5 x the one before, 30000), and none exceeds 30000
C38_WaitTerminates ==
    /\ Len(statuses) <= DefaultMaxAttempts
    /\ Len(waited) = Len(statuses)
    /\ \A i \in 1..(Len(statuses) - 1) : Neither(statuses[i])
    /\ wpc = "waiting" =>
          /\ Len(statuses) < DefaultMaxAttempts
          /\ \A i \in 1..Len(statuses) : Neither(statuses[i])
    /\ (wpc # "waiting" /\ statuses # << >>) =>
          LET lastStatus == statuses[Len(statuses)]
          IN  /\ lastStatus = "completed" =>
                    (wpc = "returned" /\ wresult = "taskResult")
              /\ lastStatus = "failed" => (wpc = "thrown" /\ wresult = "failed")
              /\ Neither(lastStatus) =>
                    /\ wpc = "thrown" /\ wresult = "timeout"
                    /\ Len(statuses) = DefaultMaxAttempts
              /\ wpc = "returned" => lastStatus = "completed"
    /\ \A i \in 1..Len(waited) :
          /\ waited[i].n <= MaxDelay * waited[i].d
          /\ i = 1 => RatEq(waited[i], Rat(DefaultInitialDelay))
          /\ i > 1 => RatEq(waited[i], CapDelay(IncreaseDelay(waited[i - 1])))
          /\ i > 1 => (\/ RatEq(waited[i], IncreaseDelay(waited[i - 1]))
                       \/ RatEq(waited[i], Rat(MaxDelay)))

\* ten checks answered 'pending': the wait threw the timeout, having waited
\* 10000, 15000, 22500 and then seven times 30000 ms
C38_Witness ==
    /\ wpc = "thrown"
    /\ wresult = "timeout"
    /\ Len(statuses) = DefaultMaxAttempts
    /\ \A i \in 1..Len(statuses) : statuses[i] = "pending"
    /\ RatEq(waited[3], Rat(22500))
    /\ \A i \in 4..DefaultMaxAttempts : RatEq(waited[i], Rat(MaxDelay))


(***************************************************************************)
(* Properties of runPipeline (specification RunSpec)                       *)
(***************************************************************************)
\* C39 as stated: whatever stages fail, the process does not end before the
\* final summary is printed; by then every stage that is not skipped has
\* been called, and a stage that failed is shown as failed
C39_SummaryAlwaysReached ==
    rpc = "exited" =>
        /\ pipelineSummary.printed
        /\ stages["illustrator"] # "none"
        /\ ~SKIP_MOCKUPS => stages["mockups"] # "none"
        /\ ~SKIP_UPLOAD => stages["upload"] # "none"
        /\ stages["illustrator"] # "resolved" =>
              pipelineSummary.illustrator = "Failed"
        /\ stages["mockups"] = "false" => pipelineSummary.mockups = "Failed"
        /\ stages["upload"] \notin {"none", "resolved"} =>
              pipelineSummary.upload = "Failed"

\* the first two stages succeeded, the upload failed in main of
\* uploadToPrintful.js, and the process ended with status 1 and no summary
C39_Witness ==
    /\ rpc = "exited"
    /\ exitStatus = 1
    /\ ~pipelineSummary.printed
    /\ illustratorSuccess
    /\ mockupSuccess
    /\ stages = [st \in StageNames |->
                    IF st = "upload" THEN "exit1"
                    ELSE IF st = "mockups" THEN "true" ELSE "resolved"]

====
